---- MODULE Spec2Model ----
\* Model of the response-generation orchestrator (runAutonomousAgent), its
\* Retry Controller (generateContentStreamWithRetry) and its Tag Scanner.
\* Text is modelled as a sequence of tokens (strings): a token stands for a
\* run of characters that the scanner's regular expressions treat as a unit
\* (an opening tag, a closing tag, a line break, a blank, a word).
EXTENDS Integers, Sequences, FiniteSets, TLC

\* ---------------------------------------------------------------- bounds
\* total number of chunks the providers stream during one invocation
MaxChunks == 3
\* the same, in the specification of the Retry Controller
MaxRetryChunks == 1
\* total number of quota (429) failures the native provider raises during
\* one invocation, in the specification of the Retry Controller
MaxQuotaErrors == 4

\* ------------------------------------------------------ program constants
\* chunks the providers stream in one run of SpecScan
MaxScanChunks == 1

MAX_LOOPS == 6
retries == 3

\* ------------------------------------------------------------ text helpers
NL == "\n"
IsWhitespace(t) == t \in {" ", "\n"}

RECURSIVE FirstIndexFrom(_, _, _)
\* index of the first occurrence of token tok in text at or after from, 0 if none
FirstIndexFrom(text, tok, from) ==
    IF from > Len(text) THEN 0
    ELSE IF text[from] = tok THEN from
    ELSE FirstIndexFrom(text, tok, from + 1)

\* String.prototype.includes on token sequences: needle occurs contiguously
Includes(text, needle) ==
    \E i \in 0..(Len(text) - Len(needle)) :
        \A k \in 1..Len(needle) : text[i + k] = needle[k]

RECURSIVE TrimStart(_)
TrimStart(text) ==
    IF text = <<>> THEN <<>>
    ELSE IF IsWhitespace(Head(text)) THEN TrimStart(Tail(text))
    ELSE text

RECURSIVE TrimEnd(_)
TrimEnd(text) ==
    IF text = <<>> THEN <<>>
    ELSE IF IsWhitespace(text[Len(text)]) THEN TrimEnd(SubSeq(text, 1, Len(text) - 1))
    ELSE text

\* String.prototype.trim
Trim(text) == TrimEnd(TrimStart(text))

SetMin(S) == CHOOSE x \in S : \A y \in S : x <= y

\* ------------------------------------------------------------- tag scanner
NoMatch == [found |-> FALSE, group |-> <<>>]

\* text.match(/<TAG>(.*?)<\/TAG>/): leftmost opening tag whose first closing
\* tag comes before any line break ('.' does not match a line break); the
\* lazy group is the text between them.
MatchClosedFrom(text, opens, close, skip) ==
    LET starts == { i \in 1..Len(text) :
                      /\ text[i] \in opens
                      /\ LET j == FirstIndexFrom(text, close, i + 1 + skip)
                         IN  /\ j # 0
                             /\ \A k \in (i + 1 + skip)..(j - 1) : text[k] # NL }
    IN  IF starts = {} THEN NoMatch
        ELSE LET i == SetMin(starts)
                 j == FirstIndexFrom(text, close, i + 1 + skip)
             IN  [found |-> TRUE, group |-> SubSeq(text, i + 1 + skip, j - 1)]

MatchClosed(text, open, close) == MatchClosedFrom(text, {open}, close, 0)

RECURSIVE WhitespaceRun(_, _)
\* number of consecutive whitespace tokens of text starting at index from
WhitespaceRun(text, from) ==
    IF from > Len(text) \/ ~IsWhitespace(text[from]) THEN 0
    ELSE 1 + WhitespaceRun(text, from + 1)

\* text.match(/<SEARCH>deep\s+(.*?)<\/SEARCH>/i)
MatchDeepSearch(text) ==
    LET opens == {"<SEARCH>", "<search>"}
        deeps == {"deep", "DEEP", "Deep"}
        closes == {"</SEARCH>", "</search>"}
        ok(i) == /\ text[i] \in opens
                 /\ i + 2 <= Len(text)
                 /\ text[i + 1] \in deeps
                 /\ WhitespaceRun(text, i + 2) >= 1
        endOf(i) == LET from == i + 2 + WhitespaceRun(text, i + 2)
                        js == { j \in from..Len(text) : text[j] \in closes }
                    IN  IF js = {} THEN 0 ELSE SetMin(js)
        starts == { i \in 1..Len(text) :
                      /\ ok(i)
                      /\ endOf(i) # 0
                      /\ \A k \in (i + 2 + WhitespaceRun(text, i + 2))..(endOf(i) - 1) :
                            text[k] # NL }
    IN  IF starts = {} THEN NoMatch
        ELSE LET i == SetMin(starts)
             IN  [found |-> TRUE,
                  group |-> SubSeq(text, i + 2 + WhitespaceRun(text, i + 2), endOf(i) - 1)]

\* faulty variant: the whole match (match[0]) is taken instead of group 1
searchMatchWhole(text) ==
    LET m == MatchClosed(text, "<SEARCH>", "</SEARCH>")
    IN  [found |-> m.found,
         group |-> IF m.found THEN <<"<SEARCH>">> \o m.group \o <<"</SEARCH>">> ELSE <<>>]

searchMatch(text) == MatchClosed(text, "<SEARCH>", "</SEARCH>")
deepMatch(text) ==
    IF MatchClosed(text, "<DEEP>", "</DEEP>").found
    THEN MatchClosed(text, "<DEEP>", "</DEEP>")
    ELSE MatchDeepSearch(text)
\* the second alternative /<THINK>/ has no group: group 1 is undefined
thinkMatch(text) ==
    IF MatchClosed(text, "<THINK>", "</THINK>").found
    THEN MatchClosed(text, "<THINK>", "</THINK>")
    ELSE [found |-> FirstIndexFrom(text, "<THINK>", 1) # 0, group |-> <<>>]
imageMatch(text) == MatchClosed(text, "<IMAGE>", "</IMAGE>")
projectMatch(text) == MatchClosed(text, "<PROJECT>", "</PROJECT>")
canvasMatch(text) == MatchClosed(text, "<CANVAS>", "</CANVAS>")
studyMatch(text) == MatchClosed(text, "<STUDY>", "</STUDY>")

NoDirective == [action |-> "NONE", prompt |-> <<>>]

\* faulty variant: SEARCH is tested before DEEP, and STUDY before CANVAS
ScanDirectiveReordered(text, promptNow) ==
    IF searchMatch(text).found
        THEN [action |-> "SEARCH", prompt |-> searchMatch(text).group]
    ELSE IF deepMatch(text).found
        THEN [action |-> "DEEP_SEARCH", prompt |-> deepMatch(text).group]
    ELSE IF thinkMatch(text).found
        THEN [action |-> "THINK",
              prompt |-> IF thinkMatch(text).group # <<>>
                         THEN Trim(thinkMatch(text).group) ELSE promptNow]
    ELSE IF imageMatch(text).found
        THEN [action |-> "IMAGE", prompt |-> imageMatch(text).group]
    ELSE IF projectMatch(text).found
        THEN [action |-> "PROJECT", prompt |-> projectMatch(text).group]
    ELSE IF studyMatch(text).found
        THEN [action |-> "STUDY", prompt |-> studyMatch(text).group]
    ELSE IF canvasMatch(text).found
        THEN [action |-> "CANVAS", prompt |-> canvasMatch(text).group]
    ELSE NoDirective

\* the if-chain after the SIMPLE stream: first match in the fixed order
\* wins; promptNow is the value of the variable prompt at that time
ScanDirective(text, promptNow) ==
    IF deepMatch(text).found
        THEN [action |-> "DEEP_SEARCH", prompt |-> deepMatch(text).group]
    ELSE IF searchMatch(text).found
        THEN [action |-> "SEARCH", prompt |-> searchMatch(text).group]
    ELSE IF thinkMatch(text).found
        THEN [action |-> "THINK",
              prompt |-> IF thinkMatch(text).group # <<>>
                         THEN Trim(thinkMatch(text).group) ELSE promptNow]
    ELSE IF imageMatch(text).found
        THEN [action |-> "IMAGE", prompt |-> imageMatch(text).group]
    ELSE IF projectMatch(text).found
        THEN [action |-> "PROJECT", prompt |-> projectMatch(text).group]
    ELSE IF canvasMatch(text).found
        THEN [action |-> "CANVAS", prompt |-> canvasMatch(text).group]
    ELSE IF studyMatch(text).found
        THEN [action |-> "STUDY", prompt |-> studyMatch(text).group]
    ELSE NoDirective

\* ------------------------------------------------------------------ state
VARIABLES
    pc,                 \* position of the invocation (its current await)
    thinkingMode,       \* input.thinkingMode
    model,              \* let model (reassigned by the tier handling)
    openRouterKey,      \* profile.openrouter_api_key is set
    preferredDeep,      \* profile.preferred_deep_model ("" when unset)
    inputPrompt,        \* input.prompt as passed by the caller
    prompt,             \* let prompt (rewritten for YouTube links)
    thinkingBudget,
    isNative,           \* const isNative, computed once
    routingAction,      \* routing.action
    routingParams,      \* routing.parameters.prompt (<<>> when absent)
    currentAction,
    currentPrompt,
    loopCount,
    finalResponseText,
    generatedThisLoop,
    metadataPayload,    \* metadataPayload.groundingMetadata (<<>> when absent)
    fallbackSearchContext,
    usedFallback,
    site,               \* handler that owns the current provider call
    streamSrc,          \* "native", "relay" (request not sent yet), "relayOpen"
    attempt,            \* Retry Controller: for-loop variable
    retryLog,           \* Retry Controller: outcome of each attempt of this call
    retryWaits,         \* Retry Controller: delays waited in this call
    callSinkStart,      \* Len(sink) when the current controller call started
    aborted,            \* signal.aborted
    chunksLeft,
    quotaLeft,
    sink,               \* every string passed to onStreamChunk, in order
    calls,              \* every request issued to a collaborator, in order
    iterLog,            \* action and prompt of every loop iteration entered
    scanLog,            \* text scanned at the end of every SIMPLE iteration
    researchLog,        \* answers returned by the research collaborator
    relayStatus,        \* answer of the relay to the last request
    caught,             \* error that reached a catch of runAutonomousAgent
    result,             \* what the caller gets
    apc,                \* streamOpenRouter: position of the generator
    response,           \* streamOpenRouter: const response
    bodyText,           \* the text of the whole response body
    wire,               \* bytes of the body not yet delivered by reader.read()
    pending,            \* TextDecoder: bytes of an unfinished character
    buffer,             \* streamOpenRouter: let buffer
    lines,              \* streamOpenRouter: lines of the for loop not yet visited
    visited,            \* every line the for loop has visited, in order
    yielded,            \* every content yielded by streamOpenRouter, in order
    raised,             \* error streamOpenRouter raised to its consumer
    transport,          \* the HTTP exchange: "none", "open", "closed", "aborted", "cancelled"
    running,            \* which of two interleaved invocations holds the frame
    other               \* frame of the invocation that is suspended

inputs == <<thinkingMode, openRouterKey, preferredDeep, inputPrompt>>
config == <<model, prompt, thinkingBudget, isNative>>
loopVars == <<routingAction, routingParams, currentAction, currentPrompt, loopCount>>
textVars == <<finalResponseText, generatedThisLoop, metadataPayload,
              fallbackSearchContext, usedFallback>>
retryVars == <<attempt, retryLog, retryWaits, callSinkStart>>
streamVars == <<site, streamSrc>>
envVars == <<aborted, chunksLeft, quotaLeft>>
logVars == <<iterLog, scanLog, researchLog, relayStatus>>
frame == <<pc, inputs, config, loopVars, textVars, retryVars, streamVars,
           envVars, logVars, sink, calls, caught, result>>
adapterVars == <<apc, response, bodyText, wire, pending, buffer, lines, visited,
                 yielded, raised, transport>>
peerVars == <<running, other>>
vars == <<frame, adapterVars, peerVars>>

\* ------------------------------------------------------------- vocabulary
Actions == {"SIMPLE", "SEARCH", "DEEP_SEARCH", "THINK", "IMAGE", "PROJECT",
            "STUDY", "CANVAS"}
BaselineModel == "gemini-2.5-flash"
DefaultDeepModel == "gemini-3-pro-preview"

\* model.startsWith('gemini') || model.startsWith('veo') || model.includes('google')
isGoogleModel(m) ==
    IF m = "" THEN TRUE
    ELSE m \in {"gemini-2.5-flash", "gemini-1.5-pro", "gemini-3-pro-preview"}

\* model.includes('gemini-2.5') || model.includes('gemini-3')
IsReasoningModel(m) == m \in {"gemini-2.5-flash", "gemini-3-pro-preview"}

PlainPrompt == <<"hello">>
YouTubePrompt == <<"see ", "youtube.com/watch?v=", "dQw4w9WgXcQ">>

\* inputs of the invocations explored
Input(mode, m, key, deep, p) ==
    [thinkingMode |-> mode, model |-> m, openRouterKey |-> key,
     preferredDeep |-> deep, prompt |-> p]
InputConfigs ==
    { Input("fast", "", FALSE, "", PlainPrompt),
      Input("fast", "openai/gpt-4o", TRUE, "", PlainPrompt),
      Input("fast", "openai/gpt-4o", FALSE, "", PlainPrompt),
      Input("fast", "gemini-2.5-flash", FALSE, "", YouTubePrompt),
      Input("instant", "", FALSE, "", PlainPrompt) }
RetryInputConfigs ==
    { Input("fast", "gemini-1.5-pro", FALSE, "", PlainPrompt),
      Input("think", "openai/gpt-4o", TRUE, "", PlainPrompt),
      Input("deep", "", FALSE, "", PlainPrompt),
      Input("deep", "", FALSE, "openai/gpt-4o", PlainPrompt) }

\* prompt.match(youtube regexes): the URL token followed by the video id
youtubeMatch(p) ==
    \E i \in 1..(Len(p) - 1) :
        p[i] \in {"youtube.com/watch?v=", "youtu.be/", "youtube.com/shorts/"}
youtubeShortMatch(p) ==
    \E i \in 1..(Len(p) - 1) : p[i] = "youtube.com/shorts/"
YouTubeRewrite(p) ==
    LET i == CHOOSE k \in 1..(Len(p) - 1) :
                 p[k] \in {"youtube.com/watch?v=", "youtu.be/", "youtube.com/shorts/"}
    IN  <<"Find details for YouTube ",
          IF youtubeShortMatch(p) THEN "Short" ELSE "Video",
          " ID: ", p[i + 1], ". Title, Channel, and Summary. URL: ", p[i], p[i + 1]>>

\* errors raised by collaborators
GenericError == [name |-> "Error", status |-> 0, message |-> <<"boom">>]
AbortError == [name |-> "AbortError", status |-> 0, message |-> <<"aborted">>]
QuotaStatusError == [name |-> "Error", status |-> 429, message |-> <<"Too Many Requests">>]
QuotaMessageError == [name |-> "Error", status |-> 0, message |-> <<"quota", " exceeded">>]
ServerError == [name |-> "Error", status |-> 500, message |-> <<"internal">>]
MaxRetriesError == [name |-> "Error", status |-> 0, message |-> <<"Max retries exceeded">>]
NoError == [name |-> "none", status |-> 0, message |-> <<>>]
Quota429MessageError == [name |-> "Error", status |-> 0,
                         message |-> <<"got status ", "429", " from the API">>]
QuotaErrors == {QuotaStatusError, QuotaMessageError, Quota429MessageError}

RelayUnavailableError(m) ==
    [name |-> "Error", status |-> 0,
     message |-> <<"The model \"", m, "\" is ", "currently unavailable",
                   " via ", "OpenRouter", " (No providers). Please select a different model.">>]
RelayHttpError(text) == [name |-> "Error", status |-> 0, message |-> text]

\* error.status === 429 || message.includes('429') || message.includes('quota')
isQuotaError(e) ==
    \/ e.status = 429
    \/ Includes(e.message, <<"429">>)
    \/ Includes(e.message, <<"quota">>)

\* chunks a provider may stream: text and grounding chunks of the candidate
Chunk(t, g) == [text |-> t, grounding |-> g]
ProviderChunks ==
    { Chunk(<<"ok">>, <<[uri |-> "https://g1.io/p", title |-> "g1"]>>),
      Chunk(<<"<SEARCH>", "cats", "</SEARCH>">>, <<>>),
      Chunk(<<"<SEARCH>", "big", NL, "cats", "</SEARCH>">>, <<>>),
      Chunk(<<"<THINK>">>, <<>>),
      Chunk(<<"<IMAGE>", "cat", "</IMAGE>">>, <<>>),
      Chunk(<<"<PROJECT>", "app", "</PROJECT>">>, <<>>),
      Chunk(<<"<CANVAS>", "ui", "</CANVAS>">>, <<>>),
      Chunk(<<NL>>, <<>>) }
RetryChunks ==
    { Chunk(<<"ok">>, <<>>),
      Chunk(<<>>, <<>>),
      Chunk(<<"<THINK>", "plan", "</THINK>">>, <<>>),
      Chunk(<<"<STUDY>", "math", "</STUDY>">>, <<>>) }

\* the seven directive kinds in the order of the if-chain, with the payload
\* the provider puts in each
Kinds ==
    << [action |-> "DEEP_SEARCH", open |-> "<DEEP>", close |-> "</DEEP>", payload |-> "pd"],
       [action |-> "SEARCH", open |-> "<SEARCH>", close |-> "</SEARCH>", payload |-> "ps"],
       [action |-> "THINK", open |-> "<THINK>", close |-> "</THINK>", payload |-> "pt"],
       [action |-> "IMAGE", open |-> "<IMAGE>", close |-> "</IMAGE>", payload |-> "pi"],
       [action |-> "PROJECT", open |-> "<PROJECT>", close |-> "</PROJECT>", payload |-> "pp"],
       [action |-> "CANVAS", open |-> "<CANVAS>", close |-> "</CANVAS>", payload |-> "pc"],
       [action |-> "STUDY", open |-> "<STUDY>", close |-> "</STUDY>", payload |-> "py"] >>

\* a closed tag of kind k; twoLines puts a line break in its payload
TagOf(k, twoLines) ==
    <<Kinds[k].open>>
        \o (IF twoLines THEN <<Kinds[k].payload, NL, "more">> ELSE <<Kinds[k].payload>>)
        \o <<Kinds[k].close>>

RECURSIVE TagsFrom(_, _, _)
\* the tags of the kinds of S among n, n-1, ..., 1, in that order (lowest
\* precedence first); kind b has a payload of two lines
TagsFrom(S, b, n) ==
    IF n = 0 THEN <<>>
    ELSE (IF n \in S THEN TagOf(n, n = b) ELSE <<>>) \o TagsFrom(S, b, n - 1)

\* provider outputs for SpecScan: every non-empty set of kinds with all
\* payloads on one line, and every kind with a payload on two lines, alone
\* and followed by the kind after it in the if-chain
ScanChunks ==
    { Chunk(TagsFrom(S, 0, Len(Kinds)), <<>>) : S \in SUBSET (1..Len(Kinds)) \ {{}} }
        \cup { Chunk(TagsFrom({k}, k, Len(Kinds)), <<>>) : k \in 1..Len(Kinds) }
        \cup { Chunk(TagsFrom({k, k + 1}, k, Len(Kinds)), <<>>) : k \in 1..(Len(Kinds) - 1) }

\* results of researchService.deepResearch
ResearchResults ==
    { [answer |-> <<"facts">>, sources |-> <<"https://www.a.com/x", "not a url">>],
      [answer |-> <<>>, sources |-> <<>>] }

\* decisions of the classifier
RoutingDecisions ==
    { [action |-> a, parameters |-> <<>>] : a \in Actions }
        \cup { [action |-> "IMAGE", parameters |-> <<"a dog">>] }
RetryRoutingDecisions ==
    { [action |-> a, parameters |-> <<>>] : a \in {"SIMPLE", "THINK", "STUDY"} }

\* new URL(url).hostname.replace('www.', ''), 'Source' when parsing fails
Hostname(url) ==
    CASE url = "https://www.a.com/x" -> "a.com"
      [] url = "https://b.org/y" -> "b.org"
      [] OTHER -> "Source"

RECURSIVE MapSources(_)
MapSources(urls) ==
    IF urls = <<>> THEN <<>>
    ELSE <<[uri |-> Head(urls), title |-> Hostname(Head(urls))]>> \o MapSources(Tail(urls))

synthesisPrompt(query, context) ==
    <<"USER QUERY: ">> \o query \o <<"\n\n", "SEARCH CONTEXT:", "\n">> \o context
        \o <<"\n\nINSTRUCTIONS: Synthesize a comprehensive answer to the user's query based ONLY on the provided search context. Cite sources using [1], [2] format where appropriate.">>

StoppedMarker == <<"(Generation stopped by user)">>
ErrorPrefix == "An error occurred: "

\* faulty variant: the constant second is not added
BackoffDelayNoOffset(k) == (2 ^ k) * 2000

\* Math.pow(2, attempt) * 2000 + 1000
BackoffDelay(k) == (2 ^ k) * 2000 + 1000
\* `(Rate limit hit. Retrying in ${Math.round(delay/1000)}s...)`
RetryNotice(delay) ==
    <<"(Rate limit hit. Retrying in ", ToString((delay + 500) \div 1000), "s...)">>

\* ---------------------------------------------------------------- helpers
Turn(text, meta, image) ==
    [sender |-> "ai", text |-> text, groundingMetadata |-> meta, image_base64 |-> image]

\* what the caller gets: the value returned or the exception raised; at names
\* the return or throw statement that produced it
NoResult == [status |-> "pending", messages |-> <<>>, at |-> "none"]
Returned(turn, at) == [status |-> "returned", messages |-> <<turn>>, at |-> at]
Thrown == [status |-> "thrown", messages |-> <<>>, at |-> "instant_catch"]

\* getUserFriendlyError (errorUtils): a readable sentence for the error
getUserFriendlyError(e) == <<"Something went wrong (", e.name, ")">>

\* the text of the Turn built by the top-level catch for a non-abort error
ErrorText(e) ==
    <<ErrorPrefix>> \o (IF Includes(e.message, <<"OpenRouter">>)
                        THEN e.message ELSE getUserFriendlyError(e))

\* catch (error) of runAutonomousAgent
CatchResult(e, text) ==
    IF e.name = "AbortError"
    THEN Returned(Turn(IF text # <<>> THEN text ELSE StoppedMarker, <<>>, FALSE), "catch_abort")
    ELSE Returned(Turn(ErrorText(e), <<>>, FALSE), "catch_error")

CatchTop(e) ==
    /\ caught' = e
    /\ result' = CatchResult(e, finalResponseText)
    /\ pc' = "done"

\* errors a collaborator that is not handed the signal can raise
CollaboratorErrors == {GenericError}
\* errors a collaborator that is handed the signal can raise
SignalledErrors == {GenericError} \cup (IF aborted THEN {AbortError} ELSE {})

\* parameters of the provider request issued for the current call site
RequestModel ==
    LET m == IF site = "STUDY" THEN BaselineModel ELSE model
    IN  IF m = "" THEN BaselineModel ELSE m
RequestBudget ==
    CASE site = "THINK" -> (IF thinkingBudget > 0 THEN thinkingBudget ELSE 2048)
      [] site = "SIMPLE" -> thinkingBudget
      [] OTHER -> 0

NativeRequest(s, m, b, k) ==
    [svc |-> "native", site |-> s, model |-> m, budget |-> b, attempt |-> k]
OtherRequest(svc, s, m) ==
    [svc |-> svc, site |-> s, model |-> m, budget |-> 0, attempt |-> 0]

\* ------------------------------------------------------------------- Init
\* the state when runAutonomousAgent is called with input in, in a run where
\* the providers stream at most nChunks chunks and raise at most nQuota
\* quota errors
InitWith(in, nChunks, nQuota) ==
    /\ pc = "start"
    /\ thinkingMode = in.thinkingMode
    /\ model = in.model
    /\ openRouterKey = in.openRouterKey
    /\ preferredDeep = in.preferredDeep
    /\ inputPrompt = in.prompt
    /\ prompt = in.prompt
    /\ thinkingBudget = 0
    /\ isNative = FALSE
    /\ routingAction = "SIMPLE"
    /\ routingParams = <<>>
    /\ currentAction = "SIMPLE"
    /\ currentPrompt = <<>>
    /\ loopCount = 0
    /\ finalResponseText = <<>>
    /\ generatedThisLoop = <<>>
    /\ metadataPayload = <<>>
    /\ fallbackSearchContext = <<>>
    /\ usedFallback = FALSE
    /\ site = "none"
    /\ streamSrc = "none"
    /\ attempt = 0
    /\ retryLog = <<>>
    /\ retryWaits = <<>>
    /\ callSinkStart = 0
    /\ aborted = FALSE
    /\ chunksLeft = nChunks
    /\ quotaLeft = nQuota
    /\ sink = <<>>
    /\ calls = <<>>
    /\ iterLog = <<>>
    /\ scanLog = <<>>
    /\ researchLog = <<>>
    /\ relayStatus = "none"
    /\ caught = NoError
    /\ result = NoResult

\* no generator of streamOpenRouter is followed step by step
NoResponse ==
    [status |-> "", ok |-> FALSE, hasBody |-> FALSE,
     error |-> [json |-> FALSE, message |-> <<>>, code |-> "", text |-> <<>>]]
AdapterIdle ==
    /\ apc = "idle"
    /\ response = NoResponse
    /\ bodyText = <<>>
    /\ wire = <<>>
    /\ pending = <<>>
    /\ buffer = <<>>
    /\ lines = <<>>
    /\ visited = <<>>
    /\ yielded = <<>>
    /\ raised = NoError
    /\ transport = "none"

\* runAutonomousAgent is called once: no other invocation is suspended
SingleInvocation ==
    /\ running = 1
    /\ other = <<>>

Init ==
    /\ \E in \in InputConfigs : InitWith(in, MaxChunks, 0)
    /\ AdapterIdle
    /\ SingleInvocation

InitRetry ==
    /\ \E in \in RetryInputConfigs : InitWith(in, MaxRetryChunks, MaxQuotaErrors)
    /\ AdapterIdle
    /\ SingleInvocation

\* ---------------------------------------------------------------- actions
\* the caller aborts the signal
SetAbort ==
    /\ pc # "done"
    /\ ~aborted
    /\ aborted' = TRUE
    \* the signal is handed to fetch: the exchange is aborted with it
    /\ transport' = IF transport = "open" THEN "aborted" ELSE transport
    /\ UNCHANGED <<apc, response, bodyText, wire, pending, buffer, lines, visited,
                   yielded, raised, peerVars>>
    /\ UNCHANGED <<pc, inputs, config, loopVars, textVars, retryVars, streamVars,
                   chunksLeft, quotaLeft, logVars, sink, calls, caught, result>>

\* thinkingMode === 'instant': the free-completion request is sent
StartInstant ==
    /\ pc = "start"
    /\ thinkingMode = "instant"
    /\ pc' = "instant"
    /\ calls' = Append(calls, OtherRequest("free", "INSTANT", ""))
    /\ UNCHANGED <<adapterVars, peerVars>>
    /\ UNCHANGED <<inputs, config, loopVars, textVars, retryVars, streamVars,
                   envVars, logVars, sink, caught, result>>

FreeCompletionTexts == {<<"hi">>, <<>>}

InstantReturns(text) ==
    /\ pc = "instant"
    /\ result' = Returned(Turn(text, <<>>, FALSE), "instant")
    /\ pc' = "done"
    /\ UNCHANGED <<adapterVars, peerVars>>
    /\ UNCHANGED <<inputs, config, loopVars, textVars, retryVars, streamVars,
                   envVars, logVars, sink, calls, caught>>

\* catch (e) { throw new Error("Instant mode service unavailable.") }
InstantFails(e) ==
    /\ pc = "instant"
    /\ caught' = e
    /\ result' = Thrown
    /\ pc' = "done"
    /\ UNCHANGED <<adapterVars, peerVars>>
    /\ UNCHANGED <<inputs, config, loopVars, textVars, retryVars, streamVars,
                   envVars, logVars, sink, calls>>

\* model defaulting, the thinking tiers, isNative, the missing relay key,
\* the YouTube rewrite, then the classifier request is sent
Start ==
    /\ pc = "start"
    /\ thinkingMode # "instant"
    /\ LET m1 == IF model = "" THEN BaselineModel ELSE model
           m2 == CASE thinkingMode = "deep" ->
                        (IF preferredDeep # "" THEN preferredDeep ELSE DefaultDeepModel)
                   [] thinkingMode = "think" -> BaselineModel
                   [] OTHER -> m1
           budget == CASE thinkingMode = "deep" -> 8192
                       [] thinkingMode = "think" -> 2048
                       [] OTHER -> 0
           switched == budget > 0 /\ ~IsReasoningModel(m2)
           m3 == IF switched THEN BaselineModel ELSE m2
           native == isGoogleModel(m3)
           keyMissing == ~native /\ ~openRouterKey
           m4 == IF keyMissing THEN BaselineModel ELSE m3
       IN  /\ thinkingBudget' = budget
           /\ isNative' = native
           /\ model' = m4
           /\ sink' = sink
                \o (IF switched
                    THEN << <<"\n*(Switched to Gemini 2.5 Flash for Thinking mode compatibility)*\n">> >>
                    ELSE <<>>)
                \o (IF keyMissing
                    THEN << <<"\n*(OpenRouter key missing, falling back to Gemini...)*\n">> >>
                    ELSE <<>>)
    /\ prompt' = IF youtubeMatch(prompt) THEN YouTubeRewrite(prompt) ELSE prompt
    /\ calls' = Append(calls, OtherRequest("classifier", "ROUTE", ""))
    /\ pc' = "route"
    /\ UNCHANGED <<adapterVars, peerVars>>
    /\ UNCHANGED <<inputs, loopVars, textVars, retryVars, streamVars,
                   envVars, logVars, caught, result>>

\* faulty variant: the decision of the classifier is kept for a YouTube link
RouteReturnsKeepsDecision(d) ==
    /\ pc = "route"
    /\ routingAction' = d.action
    /\ routingParams' = d.parameters
    /\ calls' = Append(calls, OtherRequest("memory", "CONTEXT", ""))
    /\ pc' = "memory"
    /\ UNCHANGED <<adapterVars, peerVars>>
    /\ UNCHANGED <<inputs, config, currentAction, currentPrompt, loopCount, textVars,
                   retryVars, streamVars, envVars, logVars, sink, caught, result>>

\* router.route returns; a YouTube link overrides the decision
RouteReturns(d) ==
    /\ pc = "route"
    /\ routingAction' = IF youtubeMatch(inputPrompt) THEN "SEARCH" ELSE d.action
    /\ routingParams' = IF youtubeMatch(inputPrompt) THEN <<>> ELSE d.parameters
    /\ calls' = Append(calls, OtherRequest("memory", "CONTEXT", ""))
    /\ pc' = "memory"
    /\ UNCHANGED <<adapterVars, peerVars>>
    /\ UNCHANGED <<inputs, config, currentAction, currentPrompt, loopCount, textVars,
                   retryVars, streamVars, envVars, logVars, sink, caught, result>>

RouteFails(e) ==
    /\ pc = "route"
    /\ CatchTop(e)
    /\ UNCHANGED <<adapterVars, peerVars>>
    /\ UNCHANGED <<inputs, config, loopVars, textVars, retryVars, streamVars,
                   envVars, logVars, sink, calls>>

\* memory.getContext returns; the loop state is created
MemoryReturns ==
    /\ pc = "memory"
    /\ metadataPayload' = <<>>
    /\ fallbackSearchContext' = <<>>
    /\ currentAction' = routingAction
    /\ currentPrompt' = prompt
    /\ loopCount' = 0
    /\ pc' = "loop"
    /\ UNCHANGED <<adapterVars, peerVars>>
    /\ UNCHANGED <<inputs, config, routingAction, routingParams, finalResponseText,
                   generatedThisLoop, usedFallback, retryVars, streamVars, envVars,
                   logVars, sink, calls, caught, result>>

MemoryFails(e) ==
    /\ pc = "memory"
    /\ CatchTop(e)
    /\ UNCHANGED <<adapterVars, peerVars>>
    /\ UNCHANGED <<inputs, config, loopVars, textVars, retryVars, streamVars,
                   envVars, logVars, sink, calls>>

\* ------------------------------------------------------------ the loop
\* faulty variant: the bound is compared with <=
LoopConditionInclusive(n) == n <= MAX_LOOPS

\* while (loopCount < MAX_LOOPS)
LoopCondition(n) == n < MAX_LOOPS

\* faulty variant: the loop head does not look at the signal
EnterHandlerUnchecked ==
    /\ pc = "loop"
    /\ LoopCondition(loopCount)
    /\ loopCount' = loopCount + 1
    /\ iterLog' = Append(iterLog, [action |-> currentAction, prompt |-> currentPrompt])

\* the loop head lets a handler body run: loopCount++
EnterHandler ==
    /\ pc = "loop"
    /\ LoopCondition(loopCount)
    /\ ~aborted
    /\ loopCount' = loopCount + 1
    /\ iterLog' = Append(iterLog, [action |-> currentAction, prompt |-> currentPrompt])

\* a call of generateContentStreamWithRetry starts: attempt 0 is sent
StartRetryCall(s, m, b) ==
    /\ site' = s
    /\ attempt' = 0
    /\ retryLog' = <<>>
    /\ retryWaits' = <<>>
    /\ calls' = Append(calls, NativeRequest(s, m, b, 0))
    /\ pc' = "request"

\* faulty variant: leaving the loop is reported as an error
LoopExitAsError ==
    /\ pc = "loop"
    /\ ~(LoopCondition(loopCount) /\ ~aborted)
    /\ result' = Returned(Turn(<<ErrorPrefix, "Loop limit reached">>, <<>>, FALSE), "loop_end")
    /\ pc' = "done"
    /\ UNCHANGED <<adapterVars, peerVars>>
    /\ UNCHANGED <<inputs, config, loopVars, textVars, retryVars, streamVars,
                   envVars, logVars, sink, calls, caught>>

\* the loop ends (bound reached or signal aborted): the post-loop return
LoopExit ==
    /\ pc = "loop"
    /\ ~(LoopCondition(loopCount) /\ ~aborted)
    /\ result' = Returned(Turn(finalResponseText, metadataPayload, FALSE), "loop_end")
    /\ pc' = "done"
    /\ UNCHANGED <<adapterVars, peerVars>>
    /\ UNCHANGED <<inputs, config, loopVars, textVars, retryVars, streamVars,
                   envVars, logVars, sink, calls, caught>>

\* case 'SEARCH' / 'DEEP_SEARCH': the research request is sent
EnterSEARCH ==
    /\ EnterHandler
    /\ currentAction \in {"SEARCH", "DEEP_SEARCH"}
    /\ sink' = Append(sink, <<"\nSearching sources...\n">>)
    /\ calls' = Append(calls, OtherRequest("research", currentAction, ""))
    /\ pc' = "search"
    /\ UNCHANGED <<adapterVars, peerVars>>
    /\ UNCHANGED <<inputs, config, routingAction, routingParams, currentAction,
                   currentPrompt, textVars, retryVars, streamVars, envVars,
                   scanLog, researchLog, relayStatus, caught, result>>

\* deepResearch returns: sources become citations, the answer becomes the
\* prompt of a SIMPLE synthesis pass
ResearchReturns(r) ==
    /\ pc = "search"
    /\ metadataPayload' = IF Len(r.sources) > 0 THEN MapSources(r.sources)
                          ELSE metadataPayload
    /\ fallbackSearchContext' = r.answer
    /\ currentPrompt' = synthesisPrompt(currentPrompt, r.answer)
    /\ currentAction' = "SIMPLE"
    /\ researchLog' = Append(researchLog, r)
    /\ pc' = "loop"
    /\ UNCHANGED <<adapterVars, peerVars>>
    /\ UNCHANGED <<inputs, config, routingAction, routingParams, loopCount,
                   finalResponseText, generatedThisLoop, usedFallback, retryVars,
                   streamVars, envVars, iterLog, scanLog, relayStatus, sink, calls,
                   caught, result>>

ResearchFails(e) ==
    /\ pc = "search"
    /\ CatchTop(e)
    /\ UNCHANGED <<adapterVars, peerVars>>
    /\ UNCHANGED <<inputs, config, loopVars, textVars, retryVars, streamVars,
                   envVars, logVars, sink, calls>>

\* faulty variant: the THINK handler keeps the model it was given
EnterTHINKKeepsModel ==
    /\ EnterHandler
    /\ currentAction = "THINK"
    /\ model' = model
    /\ sink' = Append(sink, <<"\nThinking deeply...\n">>)
    /\ calls' = Append(calls, OtherRequest("database", "THINK", ""))
    /\ pc' = "think_count"
    /\ UNCHANGED <<adapterVars, peerVars>>
    /\ UNCHANGED <<inputs, prompt, thinkingBudget, isNative, routingAction,
                   routingParams, currentAction, currentPrompt, textVars, retryVars,
                   streamVars, envVars, scanLog, researchLog, relayStatus, caught,
                   result>>

\* case 'THINK': pick a reasoning model, notice, incrementThinkingCount
EnterTHINK ==
    /\ EnterHandler
    /\ currentAction = "THINK"
    /\ model' = IF ~IsReasoningModel(model) THEN BaselineModel ELSE model
    /\ sink' = Append(sink, <<"\nThinking deeply...\n">>)
    /\ calls' = Append(calls, OtherRequest("database", "THINK", ""))
    /\ pc' = "think_count"
    /\ UNCHANGED <<adapterVars, peerVars>>
    /\ UNCHANGED <<inputs, prompt, thinkingBudget, isNative, routingAction,
                   routingParams, currentAction, currentPrompt, textVars, retryVars,
                   streamVars, envVars, scanLog, researchLog, relayStatus, caught,
                   result>>

\* incrementThinkingCount returns: the THINK provider call starts
ThinkCountReturns ==
    /\ pc = "think_count"
    /\ StartRetryCall("THINK", model,
                      IF thinkingBudget > 0 THEN thinkingBudget ELSE 2048)
    /\ callSinkStart' = Len(sink)
    /\ streamSrc' = "none"
    /\ UNCHANGED <<adapterVars, peerVars>>
    /\ UNCHANGED <<inputs, config, loopVars, textVars, envVars, logVars, sink,
                   caught, result>>

ThinkCountFails(e) ==
    /\ pc = "think_count"
    /\ CatchTop(e)
    /\ UNCHANGED <<adapterVars, peerVars>>
    /\ UNCHANGED <<inputs, config, loopVars, textVars, retryVars, streamVars,
                   envVars, logVars, sink, calls>>

\* case 'IMAGE': start notice, the image request is sent
EnterIMAGE ==
    /\ EnterHandler
    /\ currentAction = "IMAGE"
    /\ sink' = Append(sink, <<"{type:image_generation_start,text:">>
                                \o finalResponseText \o <<"}">>)
    /\ calls' = Append(calls, OtherRequest("image", "IMAGE", ""))
    /\ pc' = "image"
    /\ UNCHANGED <<adapterVars, peerVars>>
    /\ UNCHANGED <<inputs, config, routingAction, routingParams, currentAction,
                   currentPrompt, textVars, retryVars, streamVars, envVars,
                   scanLog, researchLog, relayStatus, caught, result>>

ImageReturns ==
    /\ pc = "image"
    /\ result' = Returned(Turn(finalResponseText, metadataPayload, TRUE), "image")
    /\ pc' = "done"
    /\ UNCHANGED <<adapterVars, peerVars>>
    /\ UNCHANGED <<inputs, config, loopVars, textVars, retryVars, streamVars,
                   envVars, logVars, sink, calls, caught>>

ImageErrorNote(e) == <<"\n\n(Image generation failed: ">> \o e.message \o <<")">>

\* faulty variant: the failure of generateImage reaches the top-level catch
ImageFailsUncaught(e) ==
    /\ pc = "image"
    /\ CatchTop(e)
    /\ UNCHANGED <<adapterVars, peerVars>>
    /\ UNCHANGED <<inputs, config, loopVars, textVars, retryVars, streamVars,
                   envVars, logVars, sink, calls>>

\* generateImage fails: the inner catch appends a note and returns
ImageFails(e) ==
    /\ pc = "image"
    /\ finalResponseText' = finalResponseText \o ImageErrorNote(e)
    /\ sink' = Append(sink, ImageErrorNote(e))
    /\ result' = Returned(Turn(finalResponseText', metadataPayload, FALSE), "image_error")
    /\ pc' = "done"
    /\ UNCHANGED <<adapterVars, peerVars>>
    /\ UNCHANGED <<inputs, config, loopVars, generatedThisLoop, metadataPayload,
                   fallbackSearchContext, usedFallback, retryVars, streamVars,
                   envVars, logVars, calls, caught>>

\* case 'CANVAS': the build agent is called with the input (signal included)
EnterCANVAS ==
    /\ EnterHandler
    /\ currentAction = "CANVAS"
    /\ calls' = Append(calls, OtherRequest("canvas", "CANVAS", ""))
    /\ pc' = "canvas"
    /\ UNCHANGED <<adapterVars, peerVars>>
    /\ UNCHANGED <<inputs, config, routingAction, routingParams, currentAction,
                   currentPrompt, textVars, retryVars, streamVars, envVars,
                   scanLog, researchLog, relayStatus, sink, caught, result>>

CanvasTexts == {<<"built">>, <<>>}

\* faulty variant: the text of the build agent is adopted and the loop goes on
CanvasReturnsContinue(text) ==
    /\ pc = "canvas"
    /\ finalResponseText' = text
    /\ pc' = "loop"
    /\ UNCHANGED <<adapterVars, peerVars>>
    /\ UNCHANGED <<inputs, config, loopVars, generatedThisLoop, metadataPayload,
                   fallbackSearchContext, usedFallback, retryVars, streamVars,
                   envVars, logVars, sink, calls, caught, result>>

\* finalResponseText = canvasMessage.text || ""
CanvasReturns(text) ==
    /\ pc = "canvas"
    /\ finalResponseText' = text
    /\ result' = Returned(Turn(text, metadataPayload, FALSE), "canvas")
    /\ pc' = "done"
    /\ UNCHANGED <<adapterVars, peerVars>>
    /\ UNCHANGED <<inputs, config, loopVars, generatedThisLoop, metadataPayload,
                   fallbackSearchContext, usedFallback, retryVars, streamVars,
                   envVars, logVars, sink, calls, caught>>

CanvasFails(e) ==
    /\ pc = "canvas"
    /\ CatchTop(e)
    /\ UNCHANGED <<adapterVars, peerVars>>
    /\ UNCHANGED <<inputs, config, loopVars, textVars, retryVars, streamVars,
                   envVars, logVars, sink, calls>>

\* faulty variant: the degraded action restarts from the user prompt
DegradeToSIMPLEResetsPrompt ==
    /\ EnterHandler
    /\ currentAction \in {"PROJECT", "STUDY"}
    /\ ~isGoogleModel(model)
    /\ currentAction' = "SIMPLE"
    /\ currentPrompt' = prompt
    /\ pc' = "loop"
    /\ UNCHANGED <<adapterVars, peerVars>>
    /\ UNCHANGED <<inputs, config, routingAction, routingParams,
                   textVars, retryVars, streamVars, envVars, scanLog, researchLog,
                   relayStatus, sink, calls, caught, result>>

\* case 'PROJECT' / 'STUDY' with a model that is not a Google model
DegradeToSIMPLE ==
    /\ EnterHandler
    /\ currentAction \in {"PROJECT", "STUDY"}
    /\ ~isGoogleModel(model)
    /\ currentAction' = "SIMPLE"
    /\ pc' = "loop"
    /\ UNCHANGED <<adapterVars, peerVars>>
    /\ UNCHANGED <<inputs, config, routingAction, routingParams, currentPrompt,
                   textVars, retryVars, streamVars, envVars, scanLog, researchLog,
                   relayStatus, sink, calls, caught, result>>

\* case 'PROJECT': notice, the single generateContent request is sent
EnterPROJECT ==
    /\ EnterHandler
    /\ currentAction = "PROJECT"
    /\ isGoogleModel(model)
    /\ sink' = Append(sink, <<"\nBuilding project structure...\n">>)
    /\ calls' = Append(calls, NativeRequest("PROJECT", BaselineModel, 0, 0))
    /\ pc' = "project"
    /\ UNCHANGED <<adapterVars, peerVars>>
    /\ UNCHANGED <<inputs, config, routingAction, routingParams, currentAction,
                   currentPrompt, textVars, retryVars, streamVars, envVars,
                   scanLog, researchLog, relayStatus, caught, result>>

ProjectTexts == {<<"{files}">>}
projectMsg(text) ==
    <<"\nI've designed the project structure based on your request.\n\n">> \o text
        \o <<"\n\n(Switch to Co-Creator mode to fully hydrate and edit these files.)">>

ProjectReturns(text) ==
    /\ pc = "project"
    /\ finalResponseText' = finalResponseText \o projectMsg(text)
    /\ sink' = Append(sink, projectMsg(text))
    /\ result' = Returned(Turn(finalResponseText', metadataPayload, FALSE), "project")
    /\ pc' = "done"
    /\ UNCHANGED <<adapterVars, peerVars>>
    /\ UNCHANGED <<inputs, config, loopVars, generatedThisLoop, metadataPayload,
                   fallbackSearchContext, usedFallback, retryVars, streamVars,
                   envVars, logVars, calls, caught>>

ProjectFails(e) ==
    /\ pc = "project"
    /\ CatchTop(e)
    /\ UNCHANGED <<adapterVars, peerVars>>
    /\ UNCHANGED <<inputs, config, loopVars, textVars, retryVars, streamVars,
                   envVars, logVars, sink, calls>>

\* case 'STUDY': notice, the STUDY provider call starts
EnterSTUDY ==
    /\ EnterHandler
    /\ currentAction = "STUDY"
    /\ isGoogleModel(model)
    /\ sink' = Append(sink, <<"\nCreating study plan...\n">>)
    /\ StartRetryCall("STUDY", BaselineModel, 0)
    /\ callSinkStart' = Len(sink')
    /\ streamSrc' = "none"
    /\ UNCHANGED <<adapterVars, peerVars>>
    /\ UNCHANGED <<inputs, config, routingAction, routingParams, currentAction,
                   currentPrompt, textVars, envVars, scanLog, researchLog,
                   relayStatus, caught, result>>

\* case 'SIMPLE' / default with isNative: the SIMPLE provider call starts
EnterSIMPLENative ==
    /\ EnterHandler
    /\ currentAction \notin (Actions \ {"SIMPLE"})
    /\ isNative
    /\ usedFallback' = FALSE
    /\ StartRetryCall("SIMPLE", model, thinkingBudget)
    /\ callSinkStart' = Len(sink)
    /\ streamSrc' = "none"
    /\ UNCHANGED <<adapterVars, peerVars>>
    /\ UNCHANGED <<inputs, config, routingAction, routingParams, currentAction,
                   currentPrompt, finalResponseText, generatedThisLoop,
                   metadataPayload, fallbackSearchContext, envVars, scanLog,
                   researchLog, relayStatus, sink, caught, result>>

\* case 'SIMPLE' / default without isNative: streamOpenRouter only creates
\* the generator, so the try around it cannot catch; the first next() of the
\* for await sends the relay request
EnterSIMPLERelay ==
    /\ EnterHandler
    /\ currentAction \notin (Actions \ {"SIMPLE"})
    /\ ~isNative
    /\ usedFallback' = FALSE
    /\ generatedThisLoop' = <<>>
    /\ site' = "SIMPLE"
    /\ streamSrc' = "relay"
    /\ relayStatus' = "sent"
    /\ calls' = Append(calls, OtherRequest("relay", "SIMPLE", model))
    /\ pc' = "stream"
    /\ UNCHANGED <<adapterVars, peerVars>>
    /\ UNCHANGED <<inputs, config, routingAction, routingParams, currentAction,
                   currentPrompt, finalResponseText, metadataPayload,
                   fallbackSearchContext, retryVars, envVars, scanLog, researchLog,
                   sink, caught, result>>

\* ------------------------------------------------------- Retry Controller
\* faulty variant: every error is retried
ShouldRetryAnyError(e, k) == k < retries

\* isQuotaError && attempt < retries
ShouldRetry(e, k) == isQuotaError(e) /\ k < retries

\* for (...; attempt <= retries; ...)
AttemptAllowed(k) == k <= retries

\* errors ai.models.generateContentStream can raise
ProviderErrors == (IF quotaLeft > 0 THEN QuotaErrors ELSE {}) \cup {ServerError}

\* faulty variant: the text of the iteration is not reset when a stream opens
RequestSucceedsKeepsText ==
    /\ pc = "request"
    /\ retryLog' = Append(retryLog, "ok")
    /\ streamSrc' = "native"
    /\ pc' = "stream"
    /\ UNCHANGED <<adapterVars, peerVars>>
    /\ UNCHANGED <<inputs, config, loopVars, textVars, site, attempt, retryWaits,
                   callSinkStart, envVars, logVars, sink, calls, caught, result>>

\* the attempt in flight returns a stream
RequestSucceeds ==
    /\ pc = "request"
    /\ retryLog' = Append(retryLog, "ok")
    /\ streamSrc' = "native"
    /\ generatedThisLoop' = IF site = "SIMPLE" THEN <<>> ELSE generatedThisLoop
    /\ pc' = "stream"
    /\ UNCHANGED <<adapterVars, peerVars>>
    /\ UNCHANGED <<inputs, config, loopVars, finalResponseText, metadataPayload,
                   fallbackSearchContext, usedFallback, site, attempt, retryWaits,
                   callSinkStart, envVars, logVars, sink, calls, caught, result>>

\* faulty variant: the controller sleeps without calling onRetry
RequestRetriedSilent(e) ==
    /\ pc = "request"
    /\ e \in ProviderErrors
    /\ ShouldRetry(e, attempt)
    /\ retryLog' = Append(retryLog, IF isQuotaError(e) THEN "quota" ELSE "error")
    /\ quotaLeft' = IF isQuotaError(e) THEN quotaLeft - 1 ELSE quotaLeft
    /\ retryWaits' = Append(retryWaits, BackoffDelay(attempt))
    /\ pc' = "backoff"
    /\ UNCHANGED <<adapterVars, peerVars>>
    /\ UNCHANGED <<inputs, config, loopVars, textVars, site, streamSrc, attempt,
                   callSinkStart, aborted, chunksLeft, logVars, sink, calls, caught,
                   result>>

\* the attempt in flight fails with a quota error and is retried: the
\* notice is passed to onRetry, then the controller sleeps
RequestRetried(e) ==
    /\ pc = "request"
    /\ e \in ProviderErrors
    /\ ShouldRetry(e, attempt)
    /\ retryLog' = Append(retryLog, IF isQuotaError(e) THEN "quota" ELSE "error")
    /\ quotaLeft' = IF isQuotaError(e) THEN quotaLeft - 1 ELSE quotaLeft
    /\ retryWaits' = Append(retryWaits, BackoffDelay(attempt))
    /\ sink' = Append(sink, RetryNotice(BackoffDelay(attempt)))
    /\ pc' = "backoff"
    /\ UNCHANGED <<adapterVars, peerVars>>
    /\ UNCHANGED <<inputs, config, loopVars, textVars, site, streamSrc, attempt,
                   callSinkStart, aborted, chunksLeft, logVars, calls, caught,
                   result>>

\* the attempt in flight fails and the error is thrown to the caller of the
\* controller, from where it reaches the top-level catch
RequestRaises(e) ==
    /\ pc = "request"
    /\ e \in ProviderErrors
    /\ ~ShouldRetry(e, attempt)
    /\ retryLog' = Append(retryLog, IF isQuotaError(e) THEN "quota" ELSE "error")
    /\ quotaLeft' = IF isQuotaError(e) THEN quotaLeft - 1 ELSE quotaLeft
    /\ CatchTop(e)
    /\ UNCHANGED <<adapterVars, peerVars>>
    /\ UNCHANGED <<inputs, config, loopVars, textVars, site, streamSrc, attempt,
                   retryWaits, callSinkStart, aborted, chunksLeft, logVars, sink,
                   calls>>

\* the sleep ends: attempt++, then the next attempt is sent, or the for loop
\* ends and "Max retries exceeded" is thrown
BackoffElapsed ==
    /\ pc = "backoff"
    /\ attempt' = attempt + 1
    /\ IF AttemptAllowed(attempt + 1)
       THEN /\ calls' = Append(calls, NativeRequest(site, RequestModel, RequestBudget,
                                                    attempt + 1))
            /\ pc' = "request"
            /\ UNCHANGED <<caught, result>>
       ELSE /\ CatchTop(MaxRetriesError)
            /\ UNCHANGED calls
    /\ UNCHANGED <<adapterVars, peerVars>>
    /\ UNCHANGED <<inputs, config, loopVars, textVars, site, streamSrc, retryLog,
                   retryWaits, callSinkStart, envVars, logVars, sink>>

\* ------------------------------------------------------------------ relay
RelayErrorMessages ==
    { <<"OpenRouter", " Error (", "500", ")">>, <<"Rate limited upstream">> }

\* response.ok: the SSE body is open
RelayResponds ==
    /\ pc = "stream"
    /\ streamSrc = "relay"
    /\ streamSrc' = "relayOpen"
    /\ relayStatus' = "ok"
    /\ UNCHANGED <<adapterVars, peerVars>>
    /\ UNCHANGED <<pc, inputs, config, loopVars, textVars, retryVars, site, envVars,
                   iterLog, scanLog, researchLog, sink, calls, caught, result>>

\* 404 with the "No allowed providers" marker: the error is thrown inside
\* the for await of the SIMPLE handler and reaches the top-level catch
RelayUnavailable ==
    /\ pc = "stream"
    /\ streamSrc = "relay"
    /\ relayStatus' = "unavailable"
    /\ CatchTop(RelayUnavailableError(model))
    /\ UNCHANGED <<adapterVars, peerVars>>
    /\ UNCHANGED <<inputs, config, loopVars, textVars, retryVars, streamVars,
                   envVars, iterLog, scanLog, researchLog, sink, calls>>

\* any other non-2xx answer
RelayRejects(msg) ==
    /\ pc = "stream"
    /\ streamSrc = "relay"
    /\ relayStatus' = "error"
    /\ CatchTop(RelayHttpError(msg))
    /\ UNCHANGED <<adapterVars, peerVars>>
    /\ UNCHANGED <<inputs, config, loopVars, textVars, retryVars, streamVars,
                   envVars, iterLog, scanLog, researchLog, sink, calls>>

\* -------------------------------------------------------------- streaming
\* faulty variant: the text of a chunk is put in front of the accumulated text
StreamChunkNewestFirst(c) ==
    /\ pc = "stream"
    /\ streamSrc \in {"native", "relayOpen"}
    /\ streamSrc = "relayOpen" => (c.text # <<>> /\ c.grounding = <<>>)
    /\ chunksLeft > 0
    /\ ~aborted
    /\ chunksLeft' = chunksLeft - 1
    /\ IF c.text # <<>>
       THEN /\ finalResponseText' = c.text \o finalResponseText
            /\ generatedThisLoop' = IF site = "SIMPLE" THEN c.text \o generatedThisLoop
                                    ELSE generatedThisLoop
            /\ sink' = Append(sink, c.text)
            /\ metadataPayload' =
                 IF site = "SIMPLE" /\ (isNative \/ usedFallback) /\ c.grounding # <<>>
                 THEN metadataPayload \o c.grounding
                 ELSE metadataPayload
       ELSE UNCHANGED <<finalResponseText, generatedThisLoop, sink, metadataPayload>>
    /\ UNCHANGED <<adapterVars, peerVars>>
    /\ UNCHANGED <<pc, inputs, config, loopVars, fallbackSearchContext, usedFallback,
                   retryVars, streamVars, aborted, quotaLeft, logVars, calls, caught,
                   result>>

\* a chunk arrives and the signal is not aborted: if (chunk.text) { ... }
StreamChunk(c) ==
    /\ pc = "stream"
    /\ streamSrc \in {"native", "relayOpen"}
    /\ streamSrc = "relayOpen" => (c.text # <<>> /\ c.grounding = <<>>)
    /\ chunksLeft > 0
    /\ ~aborted
    /\ chunksLeft' = chunksLeft - 1
    /\ IF c.text # <<>>
       THEN /\ finalResponseText' = finalResponseText \o c.text
            /\ generatedThisLoop' = IF site = "SIMPLE" THEN generatedThisLoop \o c.text
                                    ELSE generatedThisLoop
            /\ sink' = Append(sink, c.text)
            /\ metadataPayload' =
                 IF site = "SIMPLE" /\ (isNative \/ usedFallback) /\ c.grounding # <<>>
                 THEN metadataPayload \o c.grounding
                 ELSE metadataPayload
       ELSE UNCHANGED <<finalResponseText, generatedThisLoop, sink, metadataPayload>>
    /\ UNCHANGED <<adapterVars, peerVars>>
    /\ UNCHANGED <<pc, inputs, config, loopVars, fallbackSearchContext, usedFallback,
                   retryVars, streamVars, aborted, quotaLeft, logVars, calls, caught,
                   result>>

\* the provider stream fails while it is read
StreamFails(e) ==
    /\ pc = "stream"
    /\ streamSrc \in {"native", "relayOpen"}
    /\ CatchTop(e)
    /\ UNCHANGED <<adapterVars, peerVars>>
    /\ UNCHANGED <<inputs, config, loopVars, textVars, retryVars, streamVars,
                   envVars, logVars, sink, calls>>

\* the chunk loop is left: the stream ended, or a chunk arrived with the
\* signal aborted (break), or the relay generator returned on abort
StreamLeft ==
    /\ pc = "stream"
    /\ \/ streamSrc \in {"native", "relayOpen"}
       \/ streamSrc = "relay" /\ aborted

\* faulty variant: after the chunk loop of THINK or STUDY the loop goes on
StreamEndsTerminalContinue ==
    /\ StreamLeft
    /\ site \in {"THINK", "STUDY"}
    /\ pc' = "loop"
    /\ UNCHANGED <<adapterVars, peerVars>>
    /\ UNCHANGED <<inputs, config, loopVars, textVars, retryVars, streamVars,
                   envVars, logVars, sink, calls, caught, result>>

\* THINK and STUDY return right after their chunk loop
StreamEndsTerminal ==
    /\ StreamLeft
    /\ site \in {"THINK", "STUDY"}
    /\ result' = Returned(Turn(finalResponseText, metadataPayload, FALSE),
                          IF site = "THINK" THEN "think" ELSE "study")
    /\ pc' = "done"
    /\ UNCHANGED <<adapterVars, peerVars>>
    /\ UNCHANGED <<inputs, config, loopVars, textVars, retryVars, streamVars,
                   envVars, logVars, sink, calls, caught>>

\* SIMPLE: the text of this iteration holds a directive, the loop continues
StreamEndsWithDirective ==
    /\ StreamLeft
    /\ site = "SIMPLE"
    /\ LET d == ScanDirective(generatedThisLoop, prompt)
       IN  /\ d.action # "NONE"
           /\ currentAction' = d.action
           /\ currentPrompt' = d.prompt
           /\ routingParams' = IF d.action = "IMAGE" THEN d.prompt ELSE routingParams
           /\ scanLog' = Append(scanLog, [iter |-> loopCount, text |-> generatedThisLoop,
                                          directive |-> d])
    /\ pc' = "loop"
    /\ UNCHANGED <<adapterVars, peerVars>>
    /\ UNCHANGED <<inputs, config, routingAction, loopCount, textVars, retryVars,
                   streamVars, envVars, iterLog, researchLog, relayStatus, sink,
                   calls, caught, result>>

\* SIMPLE: no directive; an unused search context replaces an empty text;
\* the Turn is returned
StreamEndsSIMPLE ==
    /\ StreamLeft
    /\ site = "SIMPLE"
    /\ ScanDirective(generatedThisLoop, prompt).action = "NONE"
    /\ scanLog' = Append(scanLog, [iter |-> loopCount, text |-> generatedThisLoop,
                                   directive |-> NoDirective])
    /\ IF Trim(finalResponseText) = <<>> /\ fallbackSearchContext # <<>>
       THEN /\ finalResponseText' = fallbackSearchContext
            /\ sink' = Append(sink, fallbackSearchContext)
       ELSE UNCHANGED <<finalResponseText, sink>>
    /\ result' = Returned(Turn(finalResponseText', metadataPayload, FALSE), "simple")
    /\ pc' = "done"
    /\ UNCHANGED <<adapterVars, peerVars>>
    /\ UNCHANGED <<inputs, config, loopVars, generatedThisLoop, metadataPayload,
                   fallbackSearchContext, usedFallback, retryVars, streamVars,
                   envVars, iterLog, researchLog, relayStatus, calls, caught>>

\* ------------------------------------------------------------------- Next
\* the orchestrator with a provider that raises no quota error
Next ==
    \/ SetAbort
    \/ StartInstant
    \/ \E t \in FreeCompletionTexts : InstantReturns(t)
    \/ \E e \in SignalledErrors : InstantFails(e)
    \/ Start
    \/ \E d \in RoutingDecisions : RouteReturns(d)
    \/ \E e \in CollaboratorErrors : RouteFails(e)
    \/ MemoryReturns
    \/ \E e \in CollaboratorErrors : MemoryFails(e)
    \/ LoopExit
    \/ EnterSEARCH
    \/ \E r \in ResearchResults : ResearchReturns(r)
    \/ \E e \in CollaboratorErrors : ResearchFails(e)
    \/ EnterTHINK
    \/ ThinkCountReturns
    \/ \E e \in CollaboratorErrors : ThinkCountFails(e)
    \/ EnterIMAGE
    \/ ImageReturns
    \/ \E e \in CollaboratorErrors : ImageFails(e)
    \/ EnterCANVAS
    \/ \E t \in CanvasTexts : CanvasReturns(t)
    \/ \E e \in SignalledErrors : CanvasFails(e)
    \/ DegradeToSIMPLE
    \/ EnterPROJECT
    \/ \E t \in ProjectTexts : ProjectReturns(t)
    \/ \E e \in CollaboratorErrors : ProjectFails(e)
    \/ EnterSTUDY
    \/ EnterSIMPLENative
    \/ EnterSIMPLERelay
    \/ RequestSucceeds
    \/ RequestRaises(ServerError)
    \/ RelayResponds
    \/ RelayUnavailable
    \/ \E m \in RelayErrorMessages : RelayRejects(m)
    \/ \E c \in ProviderChunks : StreamChunk(c)
    \/ \E e \in CollaboratorErrors : StreamFails(e)
    \/ StreamEndsTerminal
    \/ StreamEndsWithDirective
    \/ StreamEndsSIMPLE

Spec == Init /\ [][Next]_vars

\* the native call sites (THINK, STUDY, SIMPLE) with a provider that raises
\* quota errors
NextRetry ==
    \/ SetAbort
    \/ Start
    \/ \E d \in RetryRoutingDecisions : RouteReturns(d)
    \/ MemoryReturns
    \/ LoopExit
    \/ EnterTHINK
    \/ ThinkCountReturns
    \/ EnterSTUDY
    \/ EnterSIMPLENative
    \/ RequestSucceeds
    \/ \E e \in QuotaErrors \cup {ServerError} : RequestRetried(e)
    \/ \E e \in QuotaErrors \cup {ServerError} : RequestRaises(e)
    \/ BackoffElapsed
    \/ \E c \in RetryChunks : StreamChunk(c)
    \/ StreamEndsTerminal
    \/ StreamEndsWithDirective
    \/ StreamEndsSIMPLE

SpecRetry == InitRetry /\ [][NextRetry]_vars

\* the tag scanner: a native model in fast mode, routed to SIMPLE, whose
\* provider streams texts made of directive tags; collaborators succeed and
\* the caller does not cancel
InitScan ==
    /\ InitWith(Input("fast", "", FALSE, "", PlainPrompt), MaxScanChunks, 0)
    /\ AdapterIdle
    /\ SingleInvocation

NextScan ==
    \/ Start
    \/ RouteReturns([action |-> "SIMPLE", parameters |-> <<>>])
    \/ MemoryReturns
    \/ EnterSIMPLENative
    \/ RequestSucceeds
    \/ \E c \in ScanChunks : StreamChunk(c)
    \/ StreamEndsWithDirective
    \/ StreamEndsSIMPLE
    \/ EnterSEARCH
    \/ \E r \in ResearchResults : ResearchReturns(r)
    \/ EnterTHINK
    \/ ThinkCountReturns
    \/ StreamEndsTerminal
    \/ EnterIMAGE
    \/ ImageReturns
    \/ EnterPROJECT
    \/ \E t \in ProjectTexts : ProjectReturns(t)
    \/ EnterCANVAS
    \/ \E t \in CanvasTexts : CanvasReturns(t)
    \/ EnterSTUDY

SpecScan == InitScan /\ [][NextScan]_vars

\* ================================================================= claims
\* ---- specification Spec

\* C1: runAutonomousAgent never raises to its caller, whatever collaborator
\* fails, and a failure that is not a cancellation is delivered as the text
\* of the returned Turn.
C1_NeverRaises ==
    /\ result.status # "thrown"
    /\ (result.status = "returned" /\ caught.name = "Error")
          => result.messages[1].text = ErrorText(caught)

\* C2: every finished invocation has produced exactly one Turn, and that
\* Turn has a text.
C2_ExactlyOneTurn ==
    pc = "done" =>
        /\ Len(result.messages) = 1
        /\ "text" \in DOMAIN result.messages[1]

\* C3: the loop counter stays between 0 and 6 and never decreases, and no
\* handler body is entered a seventh time.
C3_LoopCounterBounded ==
    /\ [](loopCount \in 0..6 /\ Len(iterLog) <= 6)
    /\ [][loopCount' >= loopCount /\ Len(iterLog') >= Len(iterLog)]_vars

\* the loop head has refused a seventh iteration
C3_Witness == loopCount = 6 /\ Len(iterLog) = 6 /\ result.at = "loop_end"

\* C4: when the loop ends on its bound of 6 iterations, the Turn returned
\* holds the accumulated FinalText and citation metadata, and no error text.
C4_ExhaustionReturnsFinalText ==
    (result.at = "loop_end" /\ loopCount = 6) =>
        /\ result.status = "returned"
        /\ result.messages = <<Turn(finalResponseText, metadataPayload, FALSE)>>
        /\ result.messages[1].text = <<>> \/ result.messages[1].text[1] # ErrorPrefix
        /\ caught = NoError

\* the bound was reached without cancellation, with text and citations
C4_Witness ==
    /\ result.at = "loop_end"
    /\ loopCount = 6
    /\ ~aborted
    /\ finalResponseText # <<>>
    /\ metadataPayload # <<>>

\* C5: after the relay answers "model unavailable" (404, no providers) the
\* invocation ends without an error Turn, having announced the fallback and
\* called the baseline native model.
C5_RelayFallback ==
    (pc = "done" /\ relayStatus = "unavailable") =>
        /\ result.status = "returned"
        /\ result.at # "catch_error"
        /\ \E i \in 1..Len(calls) :
              calls[i].svc = "native" /\ calls[i].model = BaselineModel
        /\ \E i \in 1..Len(sink) : Includes(sink[i], <<" unavailable, switching to Gemini...)*\n">>)

\* every <SEARCH>p</SEARCH> occurrence of a text (token level)
SearchPayloads(text) ==
    { SubSeq(text, i + 1, j - 1) :
        <<i, j>> \in { ij \in (1..Len(text)) \X (1..Len(text)) :
                        /\ ij[1] < ij[2]
                        /\ text[ij[1]] = "<SEARCH>"
                        /\ text[ij[2]] = "</SEARCH>" } }

HasToken(text, tok) == \E k \in 1..Len(text) : text[k] = tok

\* the payload of the first <SEARCH>...</SEARCH> pair of the text that lies
\* on one line, as a set (empty when there is none)
FirstOneLineSearchPayload(text) ==
    LET oneLine(i, j) == /\ i < j
                         /\ text[i] = "<SEARCH>"
                         /\ text[j] = "</SEARCH>"
                         /\ \A k \in (i + 1)..(j - 1) : text[k] \notin {NL, "</SEARCH>"}
        pairs == { ij \in (1..Len(text)) \X (1..Len(text)) : oneLine(ij[1], ij[2]) }
    IN  { SubSeq(text, ij[1] + 1, ij[2] - 1) :
            ij \in { q \in pairs : \A r \in pairs : q[1] <= r[1] } }

\* the first iteration was SIMPLE and its text has been scanned
FirstIterationScanned ==
    /\ Len(iterLog) >= 1
    /\ iterLog[1].action = "SIMPLE"
    /\ Len(scanLog) >= 1
    /\ scanLog[1].iter = 1

\* the SEARCH pipeline that follows a first SIMPLE iteration whose text
\* holds the payloads ps
SearchPipeline(ps) ==
    \A p \in ps :
        /\ (pc = "loop" /\ Len(iterLog) = 1)
              => (currentAction = "SEARCH" /\ currentPrompt = p)
        /\ Len(iterLog) >= 2 => iterLog[2] = [action |-> "SEARCH", prompt |-> p]
        /\ Len(iterLog) >= 3 =>
              /\ iterLog[3].action = "SIMPLE"
              /\ Includes(iterLog[3].prompt,
                          <<"SEARCH CONTEXT:", "\n">> \o researchLog[1].answer)
        /\ (pc = "done" /\ ~aborted /\ caught = NoError) => Len(iterLog) >= 3

\* C10 as stated: for any payload p, a first SIMPLE iteration whose text
\* contains <SEARCH>p</SEARCH> and no DEEP directive is followed by a SEARCH
\* iteration with prompt p, then by a SIMPLE iteration whose prompt contains
\* "SEARCH CONTEXT:" followed by the research answer.
C10_AnyPayload ==
    (FirstIterationScanned /\ ~HasToken(scanLog[1].text, "<DEEP>"))
        => SearchPipeline(SearchPayloads(scanLog[1].text))

\* C10 as amended: the same for the payload p of the first
\* <SEARCH>...</SEARCH> pair of the text that holds no line break.
C10_OneLinePayload ==
    (FirstIterationScanned /\ ~HasToken(scanLog[1].text, "<DEEP>"))
        => SearchPipeline(FirstOneLineSearchPayload(scanLog[1].text))

\* the third iteration runs the synthesis of the answer to "cats"
C10_Witness ==
    /\ FirstIterationScanned
    /\ scanLog[1].text = <<"<SEARCH>", "cats", "</SEARCH>">>
    /\ Len(iterLog) >= 3
    /\ iterLog[2] = [action |-> "SEARCH", prompt |-> <<"cats">>]
    /\ researchLog[1].answer = <<"facts">>
    /\ iterLog[3].action = "SIMPLE"

\* ---- specification SpecRetry

RECURSIVE SumSeq(_)
SumSeq(q) == IF q = <<>> THEN 0 ELSE Head(q) + SumSeq(Tail(q))

\* C6: the wait after failed attempt k is 3000, 5000, 9000 ms for k = 0, 1,
\* 2; after quota errors on attempts 0 and 1 and a success on attempt 2 the
\* call has its stream and has waited 3000 + 5000 ms.
C6_BackoffDelays ==
    /\ \A k \in 1..Len(retryWaits) : retryWaits[k] = <<3000, 5000, 9000>>[k]
    /\ retryLog = <<"quota", "quota", "ok">> =>
          /\ retryWaits = <<3000, 5000>>
          /\ SumSeq(retryWaits) = 8000
          /\ pc = "stream" => streamSrc = "native"

\* attempts 0 and 1 failed on quota, attempt 2 returned the stream
C6_Witness == retryLog = <<"quota", "quota", "ok">> /\ pc = "stream"

\* the requests of the controller call in progress, in the order sent
CallRequests ==
    IF site = "none" THEN <<>>
    ELSE LET start == SetMin({ i \in 1..(Len(calls) + 1) :
                                 \A k \in i..Len(calls) :
                                     calls[k].svc = "native" /\ calls[k].site = site
                                        /\ calls[k].attempt = k - i })
         IN  SubSeq(calls, start, Len(calls))

\* C7: attempt k+1 is sent only after attempt k failed on quota with k < 3;
\* at most 4 attempts are sent; an error that is not a quota error reaches
\* the caller after its attempt, with no wait and no further attempt.
C7_RetryOnlyOnQuota ==
    /\ Len(retryLog) <= 4
    /\ \A i \in 1..(Len(retryLog) - 1) : retryLog[i] = "quota"
    /\ Len(retryWaits) <= 3
    /\ pc \in {"request", "backoff"} =>
          /\ \A i \in 1..Len(retryLog) : retryLog[i] = "quota"
          /\ Len(retryWaits) = Len(retryLog)
          /\ Len(CallRequests) = attempt + 1
          /\ Len(CallRequests) <= 4
    /\ pc = "request" => Len(retryLog) = attempt
    /\ (retryLog # <<>> /\ retryLog[Len(retryLog)] = "error") =>
          /\ pc = "done"
          /\ caught = ServerError
          /\ result.at = "catch_error"
          /\ Len(retryWaits) = Len(retryLog) - 1
          /\ Len(CallRequests) = Len(retryLog)

\* a quota error, a wait, a second attempt, then an error that is not quota
C7_Witness == retryLog = <<"quota", "error">> /\ pc = "done"

\* C8: when all 4 attempts fail with a quota error, the error raised is the
\* "max retries exceeded" error.
C8_MaxRetriesExceeded ==
    (pc = "done" /\ retryLog = <<"quota", "quota", "quota", "quota">>)
        => caught = MaxRetriesError

IsRetryNotice(msg) == msg # <<>> /\ msg[1] = "(Rate limit hit. Retrying in "

\* number of retry notices the sink received after its first n messages
NoticesAfter(n) == Cardinality({ i \in (n + 1)..Len(sink) : IsRetryNotice(sink[i]) })

\* C9: each wait of the controller is preceded by one progress notice on the
\* sink, sent after the failed attempt, and a call has delivered as many
\* notices as it has waited, at every call site.
C9_NoticeBeforeEachWait ==
    /\ site # "none" => NoticesAfter(callSinkStart) = Len(retryWaits)
    /\ pc = "backoff" =>
          /\ retryWaits # <<>>
          /\ sink # <<>>
          /\ sink[Len(sink)] =
               <<"(Rate limit hit. Retrying in ",
                 <<"3", "5", "9">>[Len(retryWaits)], "s...)">>

\* the THINK call waits after the SIMPLE call of the same invocation waited
C9_Witness ==
    /\ pc = "backoff"
    /\ site = "THINK"
    /\ NoticesAfter(0) >= 2
    /\ Len(iterLog) = 2

\* ------------------------------------------------------------ cancellation
\* ---- specification Spec

EndsWith(text, suffix) ==
    /\ Len(suffix) <= Len(text)
    /\ SubSeq(text, Len(text) - Len(suffix) + 1, Len(text)) = suffix

\* the signal is set and the chunk loop of a provider stream is running
StreamCancelled == aborted /\ pc = "stream"

\* what follows a signal set during a chunk loop that does not fail: no chunk
\* is taken, no call is started, and the Turn returned satisfies textOk
\* (given the returned text and the partial text)
CancelledStream(textOk(_, _)) ==
    /\ (StreamCancelled /\ caught' = NoError) =>
          /\ calls' = calls
          /\ pc' # "done" => finalResponseText' = finalResponseText
          /\ pc' = "done" => /\ result'.status = "returned"
                             /\ textOk(result'.messages[1].text, finalResponseText)
    /\ (aborted /\ pc = "loop") =>
          /\ calls' = calls
          /\ pc' = "done"
          /\ result'.status = "returned"
          /\ result'.messages[1].text = finalResponseText

AwaitPoints == {"route", "memory", "search", "request", "backoff"}

\* the step sends a request to a provider (native or relay)
ProviderCallIssued ==
    /\ Len(calls') > Len(calls)
    /\ calls'[Len(calls')].svc \in {"native", "relay"}

\* C12: once the signal is set while the invocation is suspended in an
\* await, no further provider call, retry attempts included, is issued.
C12_NoProviderCallAfterSignal ==
    [][(aborted /\ pc \in AwaitPoints) => ~ProviderCallIssued]_vars

\* ---- specification Spec

\* C13: when the signal was set before the invocation returned, the text of
\* the Turn is the partial FinalText or the user-stopped marker, never an
\* error message, whatever a collaborator does after the signal.
C13_CancelledNeverError ==
    (pc = "done" /\ aborted /\ result.status = "returned") =>
        /\ result.at # "catch_error"
        /\ result.messages[1].text \in {finalResponseText, StoppedMarker}

\* the invocation returned because the signal was seen: at the loop head
\* before the bound (directly or after the break of a chunk loop), or as an
\* AbortError in the top-level catch
ReturnedOnCancellation ==
    /\ result.status = "returned"
    /\ \/ result.at = "loop_end" /\ loopCount < MAX_LOOPS
       \/ result.at = "catch_abort"

\* C14: every Turn returned because of cancellation carries the user-stopped
\* label, with or without partial text.
C14_CancelledTurnLabelled ==
    ReturnedOnCancellation =>
        \E k \in 1..Len(result.messages[1].text) :
            result.messages[1].text[k] = StoppedMarker[1]

\* C15: the text of the Turn returned is empty only when the invocation was
\* cancelled and nothing had been streamed.
C15_EmptyOnlyIfCancelled ==
    (result.status = "returned" /\ result.messages[1].text = <<>>) =>
        (aborted /\ finalResponseText = <<>>)

\* ------------------------------------------------------------- tag scanner
\* ---- specification SpecScan

\* pairs <<i, j>> of an opening and a closing tag of kind k in the text,
\* with no closing tag of the kind between them
TagPairs(text, k) ==
    { <<i, FirstIndexFrom(text, Kinds[k].close, i + 1)>> :
        i \in { n \in 1..Len(text) :
                  /\ text[n] = Kinds[k].open
                  /\ FirstIndexFrom(text, Kinds[k].close, n + 1) # 0 } }

OneLinePairs(text, k) ==
    { ij \in TagPairs(text, k) : \A m \in (ij[1] + 1)..(ij[2] - 1) : text[m] # NL }

\* the payload of the first pair of P
FirstPayload(text, P) ==
    LET ij == CHOOSE q \in P : \A r \in P : q[1] <= r[1]
    IN  SubSeq(text, ij[1] + 1, ij[2] - 1)

\* the kinds that have a closed tag in the text, and the payload of a kind
ClosedKinds(text) == { k \in 1..Len(Kinds) : TagPairs(text, k) # {} }
ClosedPayload(text, k) == FirstPayload(text, TagPairs(text, k))

\* the kinds that have a closed tag on one line, THINK counting as soon as
\* its opening tag occurs; a THINK without a payload on one line stands for
\* the user prompt
LineKinds(text) ==
    { k \in 1..Len(Kinds) :
        \/ OneLinePairs(text, k) # {}
        \/ Kinds[k].action = "THINK" /\ HasToken(text, Kinds[k].open) }
LinePayload(text, k) ==
    IF OneLinePairs(text, k) # {} THEN FirstPayload(text, OneLinePairs(text, k))
    ELSE prompt

\* every scanned SIMPLE iteration whose text holds the kinds kindsOf(text)
\* chose the first of them in the fixed order with its payload, and the next
\* iteration ran that action on that payload
PrecedenceHonoured(kindsOf(_), payloadOf(_, _)) ==
    \A n \in 1..Len(scanLog) :
        LET e == scanLog[n]
            ks == kindsOf(e.text)
        IN  ks # {} =>
              /\ e.directive = [action |-> Kinds[SetMin(ks)].action,
                                prompt |-> payloadOf(e.text, SetMin(ks))]
              /\ Len(iterLog) > e.iter =>
                    iterLog[e.iter + 1] = [action |-> e.directive.action,
                                           prompt |-> e.directive.prompt]

C17_BareThinkUsesOriginalPrompt ==
    \A n \in 1..Len(scanLog) :
        LET e == scanLog[n]
        IN  (/\ HasToken(e.text, "<THINK>")
             /\ ~HasToken(e.text, "</THINK>")
             /\ ~HasToken(e.text, "<DEEP>")
             /\ ~HasToken(e.text, "<SEARCH>"))
                => e.directive = [action |-> "THINK", prompt |-> inputPrompt]

\* ------------------------------------------------------- terminal handlers
\* ---- specification Spec

\* C18: in an invocation that ends without cancellation and without a
\* failure, every SEARCH or DEEP_SEARCH iteration is followed by a SIMPLE
\* iteration that sends the synthesis prompt to a provider; a research step
\* is never the last step.
C18_ResearchThenSynthesis ==
    (pc = "done" /\ result.status = "returned" /\ ~aborted /\ caught = NoError) =>
        \A i \in 1..Len(iterLog) :
            iterLog[i].action \in {"SEARCH", "DEEP_SEARCH"} =>
                /\ i < Len(iterLog)
                /\ iterLog[i + 1].action = "SIMPLE"
                /\ Includes(iterLog[i + 1].prompt, <<"SEARCH CONTEXT:">>)

\* the iteration in progress, or the one that returned, is one of the
\* actions as, and its output has not been scanned
UnscannedIteration(as) ==
    /\ Len(iterLog) = loopCount
    /\ iterLog[loopCount].action \in as
    /\ \A n \in 1..Len(scanLog) : scanLog[n].iter # loopCount

\* the step ends the invocation with a Turn and neither starts a call nor
\* scans
ReturnsAtOnce ==
    /\ pc' = "done"
    /\ result'.status = "returned"
    /\ calls' = calls
    /\ scanLog' = scanLog
    /\ iterLog' = iterLog

\* C19: when the stream of the THINK handler ends the invocation returns:
\* the THINK output is not scanned and no iteration or provider call follows,
\* even when the output holds directive tags.
C19_ThinkIsTerminal ==
    /\ [](((pc = "stream" /\ site = "THINK") \/ result.at = "think")
            => UnscannedIteration({"THINK"}))
    /\ [][(pc = "stream" /\ site = "THINK" /\ pc' # pc) => ReturnsAtOnce]_vars
    /\ [][pc # "done"]_vars

\* a THINK step streamed a SEARCH directive and the Turn was returned with it
C19_Witness ==
    /\ result.at = "think"
    /\ iterLog[Len(iterLog)].action = "THINK"
    /\ scanLog = <<>>
    /\ searchMatch(finalResponseText).found
    /\ result.messages[1].text = finalResponseText

\* C20: PROJECT and STUDY on a native model, and CANVAS, are terminal: when
\* the single call of the handler completes the invocation returns, without
\* a scan of the output and without a further iteration.
C20_ProjectStudyCanvasTerminal ==
    /\ []((\/ pc \in {"project", "canvas"}
           \/ (pc = "stream" /\ site = "STUDY")
           \/ result.at \in {"project", "canvas", "study"})
            => UnscannedIteration({"PROJECT", "STUDY", "CANVAS"}))
    /\ [][((\/ pc \in {"project", "canvas"}
            \/ (pc = "stream" /\ site = "STUDY")) /\ pc' # pc) => ReturnsAtOnce]_vars
    /\ [][pc # "done"]_vars

\* a STUDY step streamed a SEARCH directive and the Turn was returned with it
C20_Witness ==
    /\ result.at = "study"
    /\ iterLog[Len(iterLog)].action = "STUDY"
    /\ scanLog = <<>>
    /\ searchMatch(finalResponseText).found
    /\ result.messages[1].text = finalResponseText

\* ------------------------------------------------- degradation and failures
\* ---- specification Spec

C22_ImageFailureIsNote ==
    /\ [][(pc = "image" /\ pc' # pc) =>
            /\ pc' = "done"
            /\ caught' = NoError
            /\ result'.status = "returned"
            /\ \/ result' = Returned(Turn(finalResponseText, metadataPayload, TRUE), "image")
               \/ \E e \in CollaboratorErrors :
                    /\ finalResponseText' = finalResponseText \o ImageErrorNote(e)
                    /\ sink' = Append(sink, ImageErrorNote(e))
                    /\ result' = Returned(Turn(finalResponseText', metadataPayload, FALSE),
                                          "image_error")]_vars
    /\ [](result.at = "image_error" =>
            /\ result.messages[1].text[1] # ErrorPrefix
            /\ sink[Len(sink)] = SubSeq(result.messages[1].text,
                                        Len(result.messages[1].text) - 2,
                                        Len(result.messages[1].text)))

\* the image call failed after text and citations had been accumulated
C22_Witness ==
    /\ result.at = "image_error"
    /\ metadataPayload # <<>>
    /\ result.messages[1].groundingMetadata = metadataPayload
    /\ result.messages[1].text[1] = "ok"
    /\ EndsWith(result.messages[1].text, ImageErrorNote(GenericError))

\* C23: a failure of deepResearch or of the canvas agent is handled like an
\* image failure: the Turn returned keeps the text accumulated before the
\* failure, with a note appended, and is not an error Turn.
C23_ResearchCanvasFailureIsNote ==
    (/\ pc = "done"
     /\ caught.name = "Error"
     /\ Len(iterLog) >= 1
     /\ iterLog[Len(iterLog)].action \in {"SEARCH", "DEEP_SEARCH", "CANVAS"}) =>
        /\ result.at # "catch_error"
        /\ Len(result.messages[1].text) > Len(finalResponseText)
        /\ SubSeq(result.messages[1].text, 1, Len(finalResponseText)) = finalResponseText

\* ------------------------------------------------------------ accumulators
\* ---- specification Spec

\* every record of old is a record of new
RecordsKept(old, new) ==
    \A i \in 1..Len(old) : \E j \in 1..Len(new) : new[j] = old[i]

\* C24: citation records only accumulate: a record of MetadataPayload is in
\* MetadataPayload in every later state and in the Turn returned.
C24_MetadataOnlyAccumulates ==
    /\ [][RecordsKept(metadataPayload, metadataPayload')]_vars
    /\ [](result.status = "returned" =>
            RecordsKept(metadataPayload, result.messages[1].groundingMetadata))

IsPrefix(p, text) == Len(p) <= Len(text) /\ SubSeq(text, 1, Len(p)) = p

\* C25: FinalText is append-only: in every step its old value is a prefix of
\* its new value, and a Turn that is not an error Turn holds it.
C25_FinalTextAppendOnly ==
    /\ [][IsPrefix(finalResponseText, finalResponseText')]_vars
    /\ []((result.status = "returned" /\ caught = NoError /\ result.at # "instant")
             => result.messages[1].text = finalResponseText)

RECURSIVE Flatten(_)
\* the concatenation of the texts of a sequence of texts
Flatten(texts) ==
    IF texts = <<>> THEN <<>> ELSE Head(texts) \o Flatten(Tail(texts))

\* C26: the text of each chunk goes once to the end of FinalText and once to
\* the end of the sink, in the order of arrival, so that the text of a
\* SIMPLE call is the sink's record of it; and calls are issued one at a
\* time, each in a step that ends the wait for the one before.
C26_ChunksInOrderCallsSequential ==
    /\ [][(pc = "stream" /\ chunksLeft' # chunksLeft) =>
            LET t == SubSeq(finalResponseText', Len(finalResponseText) + 1,
                            Len(finalResponseText'))
            IN  /\ finalResponseText' = finalResponseText \o t
                /\ sink' = IF t = <<>> THEN sink ELSE Append(sink, t)]_vars
    /\ []((pc = "stream" /\ site = "SIMPLE" /\ streamSrc = "native") =>
            Flatten(SubSeq(sink, callSinkStart + 1, Len(sink))) = generatedThisLoop)
    /\ [][Len(calls') > Len(calls) =>
            /\ calls' = Append(calls, calls'[Len(calls')])
            /\ pc' # pc
            /\ pc \notin {"stream", "done"}]_vars

\* two chunks with different texts have arrived in one SIMPLE call
C26_Witness ==
    /\ pc = "stream"
    /\ site = "SIMPLE"
    /\ streamSrc = "native"
    /\ Len(sink) = callSinkStart + 2
    /\ sink[Len(sink) - 1] = <<"<SEARCH>", "cats", "</SEARCH>">>
    /\ sink[Len(sink)] = <<"ok">>
    /\ generatedThisLoop = <<"<SEARCH>", "cats", "</SEARCH>", "ok">>

\* C27: when the SIMPLE pass that follows a SEARCH or DEEP_SEARCH step ends,
\* uncancelled, with no directive and without text, the research answer is the text of
\* the Turn and the last thing sent to the sink, whether the search came from
\* the classifier or from a directive of an earlier iteration.
C27_ResearchAnswerSubstituted ==
    (/\ result.at = "simple"
     /\ ~aborted
     /\ Len(iterLog) >= 2
     /\ iterLog[Len(iterLog) - 1].action \in {"SEARCH", "DEEP_SEARCH"}
     /\ scanLog[Len(scanLog)].text = <<>>
     /\ fallbackSearchContext # <<>>) =>
        /\ result.messages[1].text = fallbackSearchContext
        /\ sink[Len(sink)] = fallbackSearchContext

\* C28: the text of a Turn returned by the SIMPLE handler without
\* cancellation, whose last iteration held no directive, holds no directive
\* for the tag scanner.
C28_ReturnedTextHasNoDirective ==
    (result.at = "simple" /\ ~aborted) =>
        ScanDirective(result.messages[1].text, prompt) = NoDirective

\* the texts scanned so far, one per SIMPLE iteration
ScannedTexts == [n \in 1..Len(scanLog) |-> scanLog[n].text]

\* C29: the scanner reads the text of the current SIMPLE iteration only:
\* the scanned texts are the consecutive slices of FinalText streamed by the
\* SIMPLE iterations, one scan per iteration, and each decision is the
\* directive of that slice alone.
C29_ScanCurrentIterationOnly ==
    /\ pc = "loop" => finalResponseText = Flatten(ScannedTexts)
    /\ (pc = "stream" /\ site = "SIMPLE") =>
          finalResponseText = Flatten(ScannedTexts) \o generatedThisLoop
    /\ \A n \in 1..Len(scanLog) :
          /\ scanLog[n].directive = ScanDirective(scanLog[n].text, prompt)
          /\ n > 1 => scanLog[n].iter > scanLog[n - 1].iter

\* the SEARCH directive of iteration 1 is still in FinalText when the
\* synthesis pass is scanned: it is not acted on again and the Turn is
\* returned
C29_Witness ==
    /\ result.at = "simple"
    /\ Len(scanLog) = 2
    /\ scanLog[1].directive.action = "SEARCH"
    /\ scanLog[2].text = <<"ok">>
    /\ scanLog[2].directive = NoDirective
    /\ ScanDirective(finalResponseText, prompt).action = "SEARCH"

\* ---- specification SpecRetry

\* C30: every request of the THINK handler, retries included, names a model
\* whose identifier contains 'gemini-2.5' or 'gemini-3' and carries a budget
\* of 8192 in deep mode and 2048 otherwise; the progress notice is in the
\* sink before the first of them is sent.
C30_ThinkModelBudgetNotice ==
    /\ [](\A n \in 1..Len(calls) :
            (calls[n].svc = "native" /\ calls[n].site = "THINK") =>
                /\ IsReasoningModel(calls[n].model)
                /\ calls[n].budget = IF thinkingMode = "deep" THEN 8192 ELSE 2048)
    /\ [][(ProviderCallIssued /\ calls'[Len(calls')].site = "THINK") =>
            \E i \in 1..Len(sink) : sink[i] = <<"\nThinking deeply...\n">>]_vars

\* deep mode: the second attempt of the THINK call, after a quota error
C30_Witness ==
    /\ thinkingMode = "deep"
    /\ calls # <<>>
    /\ calls[Len(calls)] = NativeRequest("THINK", DefaultDeepModel, 8192, 1)
    /\ retryLog = <<"quota">>

\* ------------------------------------------------------- streamOpenRouter
\* bound: lines in a response body
MaxBodyLines == 2

\* the SSE vocabulary: "data:" and " " are the six characters of 'data: '
DataPrefix == <<"data:", " ">>
JOpen == "{\"choices\":[{\"delta\":{\"content\":\""
JClose == "\"}}]}"
DoneLine == DataPrefix \o <<"[DONE]">>

\* lines a relay may send
BodyLines ==
    { DataPrefix \o <<JOpen, "a", JClose>>,
      DataPrefix \o <<JOpen, "U+00E9", JClose>>,
      DataPrefix \o <<JOpen, JClose>>,      \* empty content
      DataPrefix \o <<JOpen, "a">>,          \* JSON cut short
      DataPrefix \o <<"{}">>,                \* JSON without choices
      DoneLine,
      <<>> }                                 \* the blank line between events

RECURSIVE JoinLines(_)
JoinLines(ls) ==
    IF ls = <<>> THEN <<>> ELSE Head(ls) \o <<NL>> \o JoinLines(Tail(ls))

\* bodies: up to MaxBodyLines lines, the last one with or without its newline
Bodies ==
    LET seqs == UNION { [1..n -> BodyLines] : n \in 1..MaxBodyLines }
    IN  { JoinLines(ls) : ls \in seqs } \cup
        { SubSeq(JoinLines(ls), 1, Len(JoinLines(ls)) - 1) : ls \in seqs }

\* UTF-8: U+00E9 travels as the two bytes C3 A9, every other token as itself
RECURSIVE Encode(_)
Encode(text) ==
    IF text = <<>> THEN <<>>
    ELSE (IF Head(text) = "U+00E9" THEN <<"0xC3", "0xA9">> ELSE <<Head(text)>>)
         \o Encode(Tail(text))

\* decoder.decode(value, { stream: true }): bytes of an unfinished character
\* are kept for the next call
RECURSIVE DecodeStream(_)
DecodeStream(bytes) ==
    IF bytes = <<>> THEN [text |-> <<>>, pending |-> <<>>]
    ELSE IF Head(bytes) = "0xC3"
    THEN IF Len(bytes) = 1 THEN [text |-> <<>>, pending |-> bytes]
         ELSE IF bytes[2] = "0xA9"
         THEN LET r == DecodeStream(SubSeq(bytes, 3, Len(bytes)))
              IN  [text |-> <<"U+00E9">> \o r.text, pending |-> r.pending]
         ELSE LET r == DecodeStream(Tail(bytes))
              IN  [text |-> <<"U+FFFD">> \o r.text, pending |-> r.pending]
    ELSE LET r == DecodeStream(Tail(bytes))
         IN  [text |-> <<IF Head(bytes) = "0xA9" THEN "U+FFFD" ELSE Head(bytes)>> \o r.text,
              pending |-> r.pending]

\* buffer.split("\n")
RECURSIVE SplitLines(_)
SplitLines(text) ==
    LET i == FirstIndexFrom(text, NL, 1)
    IN  IF i = 0 THEN <<text>>
        ELSE <<SubSeq(text, 1, i - 1)>> \o SplitLines(SubSeq(text, i + 1, Len(text)))

\* line.startsWith("data: ")
StartsWithData(line) == Len(line) >= 2 /\ SubSeq(line, 1, 2) = DataPrefix

\* JSON.parse(line.substring(6)) and json.choices[0]?.delta?.content: the
\* content, or <<>> when the parse or the property access throws
ParseContent(payload) ==
    IF /\ Len(payload) >= 2
       /\ Head(payload) = JOpen
       /\ payload[Len(payload)] = JClose
       /\ \A k \in 2..(Len(payload) - 1) : payload[k] \in {"a", "U+00E9"}
    THEN SubSeq(payload, 2, Len(payload) - 1)
    ELSE <<>>

\* what the body of the for loop yields for a line (<<>>: nothing)
LineContent(line) ==
    IF StartsWithData(line) /\ line # DoneLine
    THEN ParseContent(SubSeq(line, 3, Len(line)))
    ELSE <<>>

\* answers of the relay that are not 2xx
NoProvidersMarker == <<"No allowed providers">>
ErrorBodies ==
    { [json |-> TRUE, code |-> "", text |-> <<>>,
       message |-> NoProvidersMarker \o <<" are available for the requested model">>],
      [json |-> TRUE, code |-> "404", text |-> <<>>, message |-> <<"Not Found">>],
      [json |-> TRUE, code |-> "429", text |-> <<>>, message |-> <<"Rate limited upstream">>],
      [json |-> TRUE, code |-> "", text |-> <<>>, message |-> <<>>],
      [json |-> FALSE, code |-> "", text |-> <<"Bad Gateway">>, message |-> <<>>] }
\* what fetch resolves with: 200 with or without a body, or an error status
Responses ==
    { [status |-> "200", ok |-> TRUE, hasBody |-> h, error |-> NoResponse.error] :
        h \in BOOLEAN } \cup
    { [status |-> st, ok |-> FALSE, hasBody |-> TRUE, error |-> b] :
        st \in {"404", "429", "500"}, b \in ErrorBodies }

StatusMessage(st) == <<"OpenRouter", " Error (", st, ")">>

\* response.text() after response.json() has consumed the body: the call
\* rejects and .catch(() => "") turns that into the empty string
TextAfterJson(r) == <<>>

\* if (!response.ok) { ... }: the error thrown for the answer r
TranslateError(r, m) ==
    IF /\ r.error.json
       /\ r.status = "404"
       /\ (Includes(r.error.message, NoProvidersMarker) \/ r.error.code = "404")
    THEN RelayUnavailableError(m)
    ELSE IF r.error.json /\ r.error.message # <<>>
    THEN RelayHttpError(r.error.message)
    ELSE IF ~r.error.json /\ TextAfterJson(r) # <<>>
    THEN RelayHttpError(StatusMessage(r.status) \o <<": ">> \o TextAfterJson(r))
    ELSE RelayHttpError(StatusMessage(r.status))

\* the frame of runAutonomousAgent is not touched by the generator
AdapterFrame == UNCHANGED <<frame, peerVars, bodyText>>

\* the consumer's first next(): fetch is called with the signal
SendRequest ==
    /\ apc = "idle"
    /\ apc' = "fetch"
    /\ transport' = IF aborted THEN "aborted" ELSE "open"
    /\ AdapterFrame
    /\ UNCHANGED <<response, wire, pending, buffer, lines, visited, yielded, raised>>

\* fetch rejects with an AbortError: catch (error) returns silently
FetchAborted ==
    /\ apc = "fetch"
    /\ aborted
    /\ apc' = "ended"
    /\ AdapterFrame
    /\ UNCHANGED <<response, wire, pending, buffer, lines, visited, yielded, raised,
                   transport>>

\* fetch rejects with another error: it is thrown to the consumer
FetchFails(e) ==
    /\ apc = "fetch"
    /\ ~aborted
    /\ raised' = e
    /\ apc' = "raised"
    /\ transport' = "closed"
    /\ AdapterFrame
    /\ UNCHANGED <<response, wire, pending, buffer, lines, visited, yielded>>

\* fetch resolves: !response.ok, !response.body, or the read loop starts
FetchResponds(r) ==
    /\ apc = "fetch"
    /\ ~aborted
    /\ response' = r
    /\ IF ~r.ok
       THEN /\ apc' = "errorBody"
            /\ UNCHANGED <<wire, raised, transport>>
       ELSE IF ~r.hasBody
       THEN /\ apc' = "raised"
            /\ raised' = [name |-> "Error", status |-> 0,
                          message |-> <<"No response body from ", "OpenRouter">>]
            /\ transport' = "closed"
            /\ UNCHANGED wire
       ELSE /\ apc' = "read"
            /\ wire' = Encode(bodyText)
            /\ UNCHANGED <<raised, transport>>
    /\ AdapterFrame
    /\ UNCHANGED <<pending, buffer, lines, visited, yielded>>

\* response.json() settles: the translated error is thrown
ErrorBodyRead ==
    /\ apc = "errorBody"
    /\ ~aborted
    /\ raised' = TranslateError(response, model)
    /\ apc' = "raised"
    /\ transport' = "closed"
    /\ AdapterFrame
    /\ UNCHANGED <<response, wire, pending, buffer, lines, visited, yielded>>

\* response.json() rejects with an AbortError: the inner catch goes on to
\* response.text(), and throw new Error(errorMsg) follows
ErrorBodyAborted ==
    /\ apc = "errorBody"
    /\ aborted
    /\ raised' = RelayHttpError(StatusMessage(response.status))
    /\ apc' = "raised"
    /\ AdapterFrame
    /\ UNCHANGED <<response, wire, pending, buffer, lines, visited, yielded, transport>>

\* the rest of the for loop up to its next yield; without one the while
\* loop starts over: if (signal?.aborted) { reader.cancel(); break; }.
\* A yielded value is received by for await, whose body starts with
\* if (signal?.aborted) break, which returns the generator
RunLines(ls, seen, buf, pend, rest) ==
    LET \* index of the first line of ls that yields, 0 if none
        k == IF \E n \in 1..Len(ls) : LineContent(ls[n]) # <<>>
             THEN SetMin({ n \in 1..Len(ls) : LineContent(ls[n]) # <<>> })
             ELSE 0
    IN  /\ buffer' = buf
        /\ pending' = pend
        /\ wire' = rest
        /\ IF k # 0
           THEN /\ yielded' = Append(yielded, LineContent(ls[k]))
                /\ visited' = seen \o SubSeq(ls, 1, k)
                /\ lines' = SubSeq(ls, k + 1, Len(ls))
                /\ apc' = IF aborted THEN "ended" ELSE "yield"
                /\ UNCHANGED transport
           ELSE /\ visited' = seen \o ls
                /\ lines' = <<>>
                /\ UNCHANGED yielded
                /\ IF aborted
                   THEN /\ apc' = "ended"
                        /\ transport' = "cancelled"
                   ELSE /\ apc' = "read"
                        /\ UNCHANGED transport

\* reader.read() resolves with the next n bytes of the body
ReadChunk(n) ==
    /\ apc = "read"
    /\ ~aborted
    /\ n \in 1..Len(wire)
    /\ LET d == DecodeStream(pending \o SubSeq(wire, 1, n))
           ls == SplitLines(buffer \o d.text)
       IN  RunLines(SubSeq(ls, 1, Len(ls) - 1), visited, ls[Len(ls)], d.pending,
                    SubSeq(wire, n + 1, Len(wire)))
    /\ AdapterFrame
    /\ UNCHANGED <<response, raised>>

\* reader.read() resolves with done: break, whatever buffer still holds
ReadDone ==
    /\ apc = "read"
    /\ ~aborted
    /\ wire = <<>>
    /\ apc' = "ended"
    /\ transport' = "closed"
    /\ AdapterFrame
    /\ UNCHANGED <<response, wire, pending, buffer, lines, visited, yielded, raised>>

\* faulty variant: AbortError is thrown on like any other error
ReadAbortedRaises ==
    /\ apc = "read"
    /\ aborted
    /\ apc' = "raised"
    /\ raised' = AbortError
    /\ AdapterFrame
    /\ UNCHANGED <<response, wire, pending, buffer, lines, visited, yielded, transport>>

\* reader.read() rejects with an AbortError: catch (error) returns silently
ReadAborted ==
    /\ apc = "read"
    /\ aborted
    /\ apc' = "ended"
    /\ AdapterFrame
    /\ UNCHANGED <<response, wire, pending, buffer, lines, visited, yielded, raised,
                   transport>>

\* reader.read() rejects with another error: it is thrown to the consumer
ReadFails(e) ==
    /\ apc = "read"
    /\ ~aborted
    /\ raised' = e
    /\ apc' = "raised"
    /\ transport' = "closed"
    /\ AdapterFrame
    /\ UNCHANGED <<response, wire, pending, buffer, lines, visited, yielded>>

\* the consumer's next() after a yield: the for loop goes on
Resume ==
    /\ apc = "yield"
    /\ RunLines(lines, visited, buffer, pending, wire)
    /\ AdapterFrame
    /\ UNCHANGED <<response, raised>>

InitRelay ==
    /\ InitWith(Input("fast", "openai/gpt-4o", TRUE, "", PlainPrompt), 0, 0)
    /\ apc = "idle"
    /\ response = NoResponse
    /\ bodyText \in Bodies
    /\ wire = <<>>
    /\ pending = <<>>
    /\ buffer = <<>>
    /\ lines = <<>>
    /\ visited = <<>>
    /\ yielded = <<>>
    /\ raised = NoError
    /\ transport = "none"
    /\ SingleInvocation

NextRelay ==
    \/ SetAbort
    \/ SendRequest
    \/ FetchAborted
    \/ FetchFails(GenericError)
    \/ \E r \in Responses : FetchResponds(r)
    \/ ErrorBodyRead
    \/ ErrorBodyAborted
    \/ \E n \in 1..Len(wire) : ReadChunk(n)
    \/ ReadDone
    \/ ReadAborted
    \/ ReadFails(GenericError)
    \/ Resume

SpecRelay == InitRelay /\ [][NextRelay]_vars

\* ---- specification SpecRelay

\* what the provider said in the error answer r
ProviderMessage(r) == IF r.error.json THEN r.error.message ELSE r.error.text

\* C31: the error raised for a non-2xx answer carries the HTTP status and
\* the provider's message, and it is the 'currently unavailable' error
\* exactly when the status is 404 and the answer holds the marker.
C31_ErrorCarriesStatusAndMessage ==
    (apc = "raised" /\ ~aborted /\ response # NoResponse /\ ~response.ok) =>
        /\ raised.status # 0 \/ Includes(raised.message, <<response.status>>)
        /\ Includes(raised.message, ProviderMessage(response))
        /\ (raised = RelayUnavailableError(model)) <=>
               (response.status = "404" /\
                Includes(ProviderMessage(response), NoProvidersMarker))

\* the generator is between its first read and its end
Streaming == apc \in {"read", "yield"}

\* C32 as stated: once the signal is set during the stream, the next step
\* of the generator yields nothing, ends the sequence without an error and
\* leaves the transport aborted or cancelled.
C32_NoDeltaAfterSignal ==
    [][(aborted /\ Streaming) =>
          /\ yielded' = yielded
          /\ apc' = "ended"
          /\ raised' = NoError
          /\ transport' \in {"aborted", "cancelled"}]_vars

\* C32 amended: once the signal is set during the stream, no further byte
\* is read; the next step of the generator ends the sequence without an
\* error, with the transport aborted or cancelled, after yielding at most
\* one delta of a line that the last read had already delivered.
C32_EndsAfterSignal ==
    [][(aborted /\ Streaming) =>
          /\ \/ yielded' = yielded
             \/ /\ apc = "yield"
                /\ \E k \in 1..Len(lines) :
                       yielded' = Append(yielded, LineContent(lines[k]))
          /\ wire' = wire
          /\ apc' = "ended"
          /\ raised' = NoError
          /\ transport' \in {"aborted", "cancelled"}]_vars

\* the signal was seen at the head of the read loop after some deltas, with
\* bytes of the body still unread: the reader was cancelled
C32_Witness ==
    /\ aborted
    /\ apc = "ended"
    /\ transport = "cancelled"
    /\ yielded # <<>>
    /\ wire # <<>>

\* content of a well-formed 'data: ' event, <<>> for any other line
RECURSIVE EventContents(_)
EventContents(ls) ==
    IF ls = <<>> THEN <<>>
    ELSE LET c == IF StartsWithData(Head(ls))
                  THEN ParseContent(SubSeq(Head(ls), 3, Len(Head(ls))))
                  ELSE <<>>
         IN  (IF c = <<>> THEN <<>> ELSE <<c>>) \o EventContents(Tail(ls))

\* C33: when the stream ends uncancelled, the deltas yielded are the
\* contents of the well-formed 'data: ' events of the body, in order, however
\* the body was cut into reads, a last event without newline included.
C33_DeltasEqualEvents ==
    (apc = "ended" /\ ~aborted) => yielded = EventContents(SplitLines(bodyText))

\* C34: no line visited after the 'data: [DONE]' line yields a delta.
C34_NoDeltaAfterDone ==
    \A i, j \in 1..Len(visited) :
        (i < j /\ visited[i] = DoneLine) => LineContent(visited[j]) = <<>>

\* --------------------------------------------- two invocations interleaved
\* bound: chunks the provider streams to each of two interleaved invocations
MaxPairChunks == 2

\* everything runAutonomousAgent declares (parameters, let, const) lives in
\* the frame of one call; the module itself declares no variable
Frame ==
    [pc |-> pc, thinkingMode |-> thinkingMode, model |-> model,
     openRouterKey |-> openRouterKey, preferredDeep |-> preferredDeep,
     inputPrompt |-> inputPrompt, prompt |-> prompt, thinkingBudget |-> thinkingBudget,
     isNative |-> isNative, routingAction |-> routingAction,
     routingParams |-> routingParams, currentAction |-> currentAction,
     currentPrompt |-> currentPrompt, loopCount |-> loopCount,
     finalResponseText |-> finalResponseText, generatedThisLoop |-> generatedThisLoop,
     metadataPayload |-> metadataPayload,
     fallbackSearchContext |-> fallbackSearchContext, usedFallback |-> usedFallback,
     site |-> site, streamSrc |-> streamSrc, attempt |-> attempt,
     retryLog |-> retryLog, retryWaits |-> retryWaits, callSinkStart |-> callSinkStart,
     aborted |-> aborted, chunksLeft |-> chunksLeft, quotaLeft |-> quotaLeft,
     sink |-> sink, calls |-> calls, iterLog |-> iterLog, scanLog |-> scanLog,
     researchLog |-> researchLog, relayStatus |-> relayStatus, caught |-> caught,
     result |-> result]

\* faulty variant: finalResponseText is declared once for the module, so
\* the invocation that is resumed finds what the other one left in it
SwitchInvocationSharedText ==
    /\ other # <<>>
    /\ other.pc # "done"
    /\ running' = 3 - running
    /\ other' = Frame
    /\ pc' = other.pc
    /\ thinkingMode' = other.thinkingMode
    /\ model' = other.model
    /\ openRouterKey' = other.openRouterKey
    /\ preferredDeep' = other.preferredDeep
    /\ inputPrompt' = other.inputPrompt
    /\ prompt' = other.prompt
    /\ thinkingBudget' = other.thinkingBudget
    /\ isNative' = other.isNative
    /\ routingAction' = other.routingAction
    /\ routingParams' = other.routingParams
    /\ currentAction' = other.currentAction
    /\ currentPrompt' = other.currentPrompt
    /\ loopCount' = other.loopCount
    /\ finalResponseText' = finalResponseText
    /\ generatedThisLoop' = other.generatedThisLoop
    /\ metadataPayload' = other.metadataPayload
    /\ fallbackSearchContext' = other.fallbackSearchContext
    /\ usedFallback' = other.usedFallback
    /\ site' = other.site
    /\ streamSrc' = other.streamSrc
    /\ attempt' = other.attempt
    /\ retryLog' = other.retryLog
    /\ retryWaits' = other.retryWaits
    /\ callSinkStart' = other.callSinkStart
    /\ aborted' = other.aborted
    /\ chunksLeft' = other.chunksLeft
    /\ quotaLeft' = other.quotaLeft
    /\ sink' = other.sink
    /\ calls' = other.calls
    /\ iterLog' = other.iterLog
    /\ scanLog' = other.scanLog
    /\ researchLog' = other.researchLog
    /\ relayStatus' = other.relayStatus
    /\ caught' = other.caught
    /\ result' = other.result
    /\ UNCHANGED adapterVars

\* the running invocation waits at an await and the event loop resumes the
\* other invocation with the frame it was suspended with
SwitchInvocation ==
    /\ other # <<>>
    /\ other.pc # "done"
    /\ running' = 3 - running
    /\ other' = Frame
    /\ pc' = other.pc
    /\ thinkingMode' = other.thinkingMode
    /\ model' = other.model
    /\ openRouterKey' = other.openRouterKey
    /\ preferredDeep' = other.preferredDeep
    /\ inputPrompt' = other.inputPrompt
    /\ prompt' = other.prompt
    /\ thinkingBudget' = other.thinkingBudget
    /\ isNative' = other.isNative
    /\ routingAction' = other.routingAction
    /\ routingParams' = other.routingParams
    /\ currentAction' = other.currentAction
    /\ currentPrompt' = other.currentPrompt
    /\ loopCount' = other.loopCount
    /\ finalResponseText' = other.finalResponseText
    /\ generatedThisLoop' = other.generatedThisLoop
    /\ metadataPayload' = other.metadataPayload
    /\ fallbackSearchContext' = other.fallbackSearchContext
    /\ usedFallback' = other.usedFallback
    /\ site' = other.site
    /\ streamSrc' = other.streamSrc
    /\ attempt' = other.attempt
    /\ retryLog' = other.retryLog
    /\ retryWaits' = other.retryWaits
    /\ callSinkStart' = other.callSinkStart
    /\ aborted' = other.aborted
    /\ chunksLeft' = other.chunksLeft
    /\ quotaLeft' = other.quotaLeft
    /\ sink' = other.sink
    /\ calls' = other.calls
    /\ iterLog' = other.iterLog
    /\ scanLog' = other.scanLog
    /\ researchLog' = other.researchLog
    /\ relayStatus' = other.relayStatus
    /\ caught' = other.caught
    /\ result' = other.result
    /\ UNCHANGED adapterVars

\* two calls with the same input, the second one suspended before its
\* first statement
InitPair ==
    /\ InitWith(Input("fast", "", FALSE, "", PlainPrompt), MaxPairChunks, 0)
    /\ AdapterIdle
    /\ running = 1
    /\ other = Frame

NextPair ==
    \/ SwitchInvocation
    \/ Start
    \/ \E a \in {"SIMPLE", "SEARCH"} : RouteReturns([action |-> a, parameters |-> <<>>])
    \/ MemoryReturns
    \/ EnterSEARCH
    \/ \E r \in ResearchResults : ResearchReturns(r)
    \/ EnterSIMPLENative
    \/ RequestSucceeds
    \/ \E c \in { Chunk(<<"ok">>, <<[uri |-> "https://g1.io/p", title |-> "g1"]>>),
                 Chunk(<<"<SEARCH>", "cats", "</SEARCH>">>, <<>>) } : StreamChunk(c)
    \/ StreamEndsWithDirective
    \/ StreamEndsSIMPLE

SpecPair == InitPair /\ [][NextPair]_vars

\* ---- specification SpecPair

\* what an invocation was given: its input and what its collaborators
\* answered so far, with the await it is at
Given(f) ==
    <<f.pc, f.inputPrompt, f.routingAction, f.iterLog, f.scanLog, f.researchLog,
      f.sink, f.calls, f.chunksLeft>>

\* the accumulators of an invocation and the Turn it returned
Accumulators(f) ==
    <<f.finalResponseText, f.metadataPayload, f.loopCount, f.currentAction,
      f.currentPrompt, f.result>>

C36_NoRelayRequestWithoutKey ==
    (pc # "start" /\ thinkingMode # "instant" /\ ~openRouterKey) =>
        /\ \A n \in 1..Len(calls) : calls[n].svc # "relay"
        /\ (pc = "stream" /\ site = "SIMPLE") =>
               (streamSrc = "native" /\ calls[Len(calls)].model = BaselineModel)

\* C37: once the signal is set in a running invocation nothing more is
\* passed to the sink: no stream token, no progress notice of the research
\* or of the Retry Controller, no substituted research answer.
C37_SinkSilentAfterSignal ==
    [][(aborted /\ pc # "start") => sink' = sink]_vars

\* ------------------------------------------------------------- completion
\* invocations whose provider keeps sending directives, whose PROJECT steps
\* degrade, and whose native provider answers with quota errors
InitLive ==
    /\ \E in \in { Input("fast", "openai/gpt-4o", TRUE, "", PlainPrompt),
                  Input("fast", "gemini-1.5-pro", FALSE, "", PlainPrompt) } :
          InitWith(in, MaxChunks, MaxQuotaErrors)
    /\ AdapterIdle
    /\ SingleInvocation

NextLive ==
    \/ SetAbort
    \/ Start
    \/ \E a \in {"SIMPLE", "SEARCH"} : RouteReturns([action |-> a, parameters |-> <<>>])
    \/ MemoryReturns
    \/ LoopExit
    \/ EnterSEARCH
    \/ \E r \in ResearchResults : ResearchReturns(r)
    \/ \E e \in CollaboratorErrors : ResearchFails(e)
    \/ DegradeToSIMPLE
    \/ EnterPROJECT
    \/ \E t \in ProjectTexts : ProjectReturns(t)
    \/ EnterSIMPLENative
    \/ EnterSIMPLERelay
    \/ RequestSucceeds
    \/ \E e \in QuotaErrors : RequestRetried(e)
    \/ \E e \in QuotaErrors : RequestRaises(e)
    \/ BackoffElapsed
    \/ RelayResponds
    \/ \E c \in { Chunk(<<"<PROJECT>", "app", "</PROJECT>">>, <<>>),
                 Chunk(<<"<SEARCH>", "cats", "</SEARCH>">>, <<>>) } : StreamChunk(c)
    \/ \E e \in CollaboratorErrors : StreamFails(e)
    \/ StreamEndsWithDirective
    \/ StreamEndsSIMPLE

\* every collaborator call returns or fails and the runtime runs the
\* continuation: a step that can be taken is eventually taken
SpecLive == InitLive /\ [][NextLive]_vars /\ WF_vars(NextLive)

\* ---- specification SpecLive

RECURSIVE IndexOfFrom(_, _, _)
\* the first index at or after from where needle occurs in text, 0 if none
IndexOfFrom(text, needle, from) ==
    IF from + Len(needle) - 1 > Len(text) THEN 0
    ELSE IF SubSeq(text, from, from + Len(needle) - 1) = needle THEN from
    ELSE IndexOfFrom(text, needle, from + 1)

RECURSIVE ContainsInOrder(_, _, _)
\* the texts of toks occur in text one after the other, from index from on
ContainsInOrder(text, toks, from) ==
    IF toks = <<>> THEN TRUE
    ELSE LET i == IndexOfFrom(text, Head(toks), from)
         IN  i # 0 /\ ContainsInOrder(text, Tail(toks), i + Len(Head(toks)))

\* the stream tokens among what the sink received
StreamTokens ==
    SelectSeq(sink, LAMBDA t : t \in { c.text : c \in ProviderChunks })

\* C39: the text of the Turn returned by a non-instant invocation contains,
\* in order, every stream token that was passed to the sink.
C39_StreamedTextIsReturned ==
    (pc = "done" /\ thinkingMode # "instant") =>
        ContainsInOrder(result.messages[1].text, StreamTokens, 1)

\* C40: with a YouTube link in the prompt the first iteration is a SEARCH
\* with the rewritten prompt, and the routing parameters are empty while it
\* runs, whatever the classifier returned.
C40_YouTubeOverridesRouting ==
    (youtubeMatch(inputPrompt) /\ thinkingMode # "instant" /\ Len(iterLog) >= 1) =>
        /\ iterLog[1] = [action |-> "SEARCH", prompt |-> YouTubeRewrite(inputPrompt)]
        /\ Len(iterLog) = 1 => (routingAction = "SEARCH" /\ routingParams = <<>>)

\* the research request of the first iteration of a YouTube prompt is out
C40_Witness ==
    /\ inputPrompt = YouTubePrompt
    /\ pc = "search"
    /\ loopCount = 1
    /\ currentPrompt = <<"Find details for YouTube ", "Video", " ID: ", "dQw4w9WgXcQ",
                         ". Title, Channel, and Summary. URL: ",
                         "youtube.com/watch?v=", "dQw4w9WgXcQ">>
    /\ calls[Len(calls)].svc = "research"

====
